---------------------------- MODULE Spec2Model ----------------------------
(***************************************************************************)
(* A model of the tag-ordering and ticket-attribution engine of            *)
(* rubin_changelog:                                                        *)
(*   - tag.py        Tag, matches_release        (pure functions)          *)
(*   - changelog.py  get_package_diff, get_package_repos,                  *)
(*                   _ticket_number, get_merged_tickets                    *)
(* Strings of the program are sequences of one-character strings, so that  *)
(* the regular expressions, str.replace and str.upper are computed.        *)
(* Python integers are unbounded; Tag._hash is kept exactly as a two-limb  *)
(* number [hi, lo] = hi * 10^6 + lo with 0 <= lo < 10^6.                   *)
(* Time stamps are natural numbers: dateutil's parse() of the ISO strings  *)
(* GitHub returns is order preserving, and the SortedDict of merge dates   *)
(* iterates in the same (chronological) order.                             *)
(***************************************************************************)
EXTENDS Integers, Sequences, FiniteSets, TLC

VARIABLES
    \* ---- tag.py: two tags under construction and comparison
    names,          \* <<name1, name2>>: the raw strings given to Tag()
    tagobjs,        \* <<>> before construction, then <<Tag(name1), Tag(name2)>>
    matched,        \* <<>>, then matches_release of each tag for each cadence
    \* ---- changelog.py get_package_diff
    releases,       \* eups_data['releases']: sequence of [name, data] in Tag order
    diff_idx,       \* position of the loop `for r in releases`
    last_release,   \* <<>> (None) or <<data>>
    diff_result,    \* the SortedDict result: set of [tag, added, removed]
    \* ---- changelog.py get_package_repos / get_merged_tickets
    release,        \* ReleaseType of the run
    first_cut,      \* the names of the tags that are the first cut on their
                    \* release branch (Tag.is_first_release_tag answers true)
    github_cache,   \* ChangeLog._github_cache: <<>> (None) or <<[pulls, tags, branches]>>
    package_diff,   \* the package diff given to get_merged_tickets
    repos,          \* the repos given to get_merged_tickets: [tags, pulls, branches];
                    \* from get_package_repos, pulls and branches are those of the cache
    result,         \* the SortedDict of buckets being built
    last_tag_date,  \* <<>> (None) or <<date>>
    last_tag,       \* <<>> (None) or the name of a tag
    last_branch,    \* current branch of the package being processed
    pkg_idx,        \* position of the loop `for pkg in tag_list`
    tag_idx,        \* position of the loop `for tag in tags`
    pc,             \* "idle" | "fetching" (_get_package_repos runs) | "cached" |
                    \* "failed" (get_package_repos raised) | "ready" |
                    \* "loop" | "done" | "error" (get_merged_tickets raised);
                    \* "off" where get_merged_tickets is not part of the run
    calls,          \* number of get_merged_tickets calls started
    returned,       \* sequence of the results returned so far
    given_pulls,    \* history: repos['pulls'] as it was when the call started
    last_step,      \* history: what the last processed tag consumed
    \* ---- rst.py write_releases: the ticket table of one bucket
    jira,           \* the dict of JiraData.get_tickets: key -> summary
    tickets,        \* tags[tag_name]['tickets'] of the bucket being written
    ticket_idx,     \* position of the loop `for ticket in tickets`
    ticket_dict,    \* the SortedDict number -> (msg, date, [product, ...])
    row,            \* the rows of the table
    wpc,            \* "tickets" | "rows" | "done" | "error"; "off" outside write_releases
    \* ---- changelog.py _ticket_number
    pr_title,       \* the title given to _ticket_number
    parsed,         \* <<>> before the call, then <<its outcome>>
    \* ---- eups.py get_releases
    eups_urls,      \* the .list files of the server: [name, outcome, data]
    url_list,       \* the urls kept by the filter, as positions of eups_urls
    downloaded,     \* the positions whose future the loop has processed
    release_list,   \* the SortedDict of releases: set of [name, data]
    product_list,   \* the SortedList of products
    epc,            \* "filter" | "download" | "done"; "off" outside get_releases
    \* ---- changelog.py _get_package_repos
    fetch_products, \* the products given to _get_package_repos
    gh_repos,       \* the repositories GitHubData.get_repos returns
    futures,        \* repo -> [done, exception, data]: the future of its fetch
    finished,       \* the repos in the order their fetches completed
    snapshot,       \* the repos whose futures were done when as_completed began
    collected,      \* the repos of the futures handed to the loop, in order
    fetched,        \* the result being built: [pulls, tags, branches]
    fpc,            \* "start" | "submitted" | "running" | "returned"; "off" outside
    \* ---- rst.py write_products
    product_names,  \* the SortedList of products given to write_products
    cols,           \* the rows of the table (the list the code names cols)
    row_i,          \* position of the loop `for i in range(r)`
    ppc             \* "start" | "rows" | "done"; "off" outside write_products

vars == <<names, tagobjs, releases, diff_idx, last_release, diff_result,
          release, first_cut, github_cache, package_diff, repos, result, last_tag_date,
          last_tag, last_branch, pkg_idx, tag_idx, pc, calls, returned,
          given_pulls, last_step, jira, tickets, ticket_idx, ticket_dict, row,
          wpc, matched, pr_title, parsed, eups_urls, url_list, downloaded,
          release_list, product_list, epc, fetch_products, gh_repos, futures, finished, snapshot, collected,
          fetched, fpc, product_names, cols, row_i, ppc>>

tagVars == <<names, tagobjs, matched>>
diffVars == <<releases, diff_idx, last_release, diff_result>>
logVars == <<release, first_cut, github_cache, package_diff, repos, result,
             last_tag_date, last_tag, last_branch, pkg_idx, tag_idx, pc,
             calls, returned, given_pulls, last_step>>
rstVars == <<jira, tickets, ticket_idx, ticket_dict, row, wpc>>
ticketVars == <<pr_title, parsed>>
eupsVars == <<eups_urls, url_list, downloaded, release_list, product_list, epc>>
fetchVars == <<fetch_products, gh_repos, futures, finished, snapshot, collected, fetched, fpc>>
productVars == <<product_names, cols, row_i, ppc>>

-----------------------------------------------------------------------------
(* Characters and numbers *)

\* A string is a sequence of characters. A character that a TLA+ string
\* cannot hold, or that is outside ASCII, is written "U+" and its code point.

DigitChars == <<"0", "1", "2", "3", "4", "5", "6", "7", "8", "9">>

\* the decimal digits of Unicode outside ASCII (category Nd, which \d of a
\* str pattern matches and int() accepts), by value: the set at position
\* v + 1 holds the digits of value v
UnicodeDigits ==
    <<{"U+0660", "U+06F0", "U+07C0", "U+0966", "U+09E6", "U+0A66", "U+0AE6",
       "U+0B66", "U+0BE6", "U+0C66", "U+0CE6", "U+0D66", "U+0DE6", "U+0E50",
       "U+0ED0", "U+0F20", "U+1040", "U+1090", "U+17E0", "U+1810", "U+1946",
       "U+19D0", "U+1A80", "U+1A90", "U+1B50", "U+1BB0", "U+1C40", "U+1C50",
       "U+A620", "U+A8D0", "U+A900", "U+A9D0", "U+A9F0", "U+AA50", "U+ABF0",
       "U+FF10", "U+104A0", "U+10D30", "U+11066", "U+110F0", "U+11136",
       "U+111D0", "U+112F0", "U+11450", "U+114D0", "U+11650", "U+116C0",
       "U+11730", "U+118E0", "U+11950", "U+11C50", "U+11D50", "U+11DA0",
       "U+16A60", "U+16AC0", "U+16B50", "U+1D7CE", "U+1D7D8", "U+1D7E2",
       "U+1D7EC", "U+1D7F6", "U+1E140", "U+1E2F0", "U+1E950", "U+1FBF0"},
      {"U+0661", "U+06F1", "U+07C1", "U+0967", "U+09E7", "U+0A67", "U+0AE7",
       "U+0B67", "U+0BE7", "U+0C67", "U+0CE7", "U+0D67", "U+0DE7", "U+0E51",
       "U+0ED1", "U+0F21", "U+1041", "U+1091", "U+17E1", "U+1811", "U+1947",
       "U+19D1", "U+1A81", "U+1A91", "U+1B51", "U+1BB1", "U+1C41", "U+1C51",
       "U+A621", "U+A8D1", "U+A901", "U+A9D1", "U+A9F1", "U+AA51", "U+ABF1",
       "U+FF11", "U+104A1", "U+10D31", "U+11067", "U+110F1", "U+11137",
       "U+111D1", "U+112F1", "U+11451", "U+114D1", "U+11651", "U+116C1",
       "U+11731", "U+118E1", "U+11951", "U+11C51", "U+11D51", "U+11DA1",
       "U+16A61", "U+16AC1", "U+16B51", "U+1D7CF", "U+1D7D9", "U+1D7E3",
       "U+1D7ED", "U+1D7F7", "U+1E141", "U+1E2F1", "U+1E951", "U+1FBF1"},
      {"U+0662", "U+06F2", "U+07C2", "U+0968", "U+09E8", "U+0A68", "U+0AE8",
       "U+0B68", "U+0BE8", "U+0C68", "U+0CE8", "U+0D68", "U+0DE8", "U+0E52",
       "U+0ED2", "U+0F22", "U+1042", "U+1092", "U+17E2", "U+1812", "U+1948",
       "U+19D2", "U+1A82", "U+1A92", "U+1B52", "U+1BB2", "U+1C42", "U+1C52",
       "U+A622", "U+A8D2", "U+A902", "U+A9D2", "U+A9F2", "U+AA52", "U+ABF2",
       "U+FF12", "U+104A2", "U+10D32", "U+11068", "U+110F2", "U+11138",
       "U+111D2", "U+112F2", "U+11452", "U+114D2", "U+11652", "U+116C2",
       "U+11732", "U+118E2", "U+11952", "U+11C52", "U+11D52", "U+11DA2",
       "U+16A62", "U+16AC2", "U+16B52", "U+1D7D0", "U+1D7DA", "U+1D7E4",
       "U+1D7EE", "U+1D7F8", "U+1E142", "U+1E2F2", "U+1E952", "U+1FBF2"},
      {"U+0663", "U+06F3", "U+07C3", "U+0969", "U+09E9", "U+0A69", "U+0AE9",
       "U+0B69", "U+0BE9", "U+0C69", "U+0CE9", "U+0D69", "U+0DE9", "U+0E53",
       "U+0ED3", "U+0F23", "U+1043", "U+1093", "U+17E3", "U+1813", "U+1949",
       "U+19D3", "U+1A83", "U+1A93", "U+1B53", "U+1BB3", "U+1C43", "U+1C53",
       "U+A623", "U+A8D3", "U+A903", "U+A9D3", "U+A9F3", "U+AA53", "U+ABF3",
       "U+FF13", "U+104A3", "U+10D33", "U+11069", "U+110F3", "U+11139",
       "U+111D3", "U+112F3", "U+11453", "U+114D3", "U+11653", "U+116C3",
       "U+11733", "U+118E3", "U+11953", "U+11C53", "U+11D53", "U+11DA3",
       "U+16A63", "U+16AC3", "U+16B53", "U+1D7D1", "U+1D7DB", "U+1D7E5",
       "U+1D7EF", "U+1D7F9", "U+1E143", "U+1E2F3", "U+1E953", "U+1FBF3"},
      {"U+0664", "U+06F4", "U+07C4", "U+096A", "U+09EA", "U+0A6A", "U+0AEA",
       "U+0B6A", "U+0BEA", "U+0C6A", "U+0CEA", "U+0D6A", "U+0DEA", "U+0E54",
       "U+0ED4", "U+0F24", "U+1044", "U+1094", "U+17E4", "U+1814", "U+194A",
       "U+19D4", "U+1A84", "U+1A94", "U+1B54", "U+1BB4", "U+1C44", "U+1C54",
       "U+A624", "U+A8D4", "U+A904", "U+A9D4", "U+A9F4", "U+AA54", "U+ABF4",
       "U+FF14", "U+104A4", "U+10D34", "U+1106A", "U+110F4", "U+1113A",
       "U+111D4", "U+112F4", "U+11454", "U+114D4", "U+11654", "U+116C4",
       "U+11734", "U+118E4", "U+11954", "U+11C54", "U+11D54", "U+11DA4",
       "U+16A64", "U+16AC4", "U+16B54", "U+1D7D2", "U+1D7DC", "U+1D7E6",
       "U+1D7F0", "U+1D7FA", "U+1E144", "U+1E2F4", "U+1E954", "U+1FBF4"},
      {"U+0665", "U+06F5", "U+07C5", "U+096B", "U+09EB", "U+0A6B", "U+0AEB",
       "U+0B6B", "U+0BEB", "U+0C6B", "U+0CEB", "U+0D6B", "U+0DEB", "U+0E55",
       "U+0ED5", "U+0F25", "U+1045", "U+1095", "U+17E5", "U+1815", "U+194B",
       "U+19D5", "U+1A85", "U+1A95", "U+1B55", "U+1BB5", "U+1C45", "U+1C55",
       "U+A625", "U+A8D5", "U+A905", "U+A9D5", "U+A9F5", "U+AA55", "U+ABF5",
       "U+FF15", "U+104A5", "U+10D35", "U+1106B", "U+110F5", "U+1113B",
       "U+111D5", "U+112F5", "U+11455", "U+114D5", "U+11655", "U+116C5",
       "U+11735", "U+118E5", "U+11955", "U+11C55", "U+11D55", "U+11DA5",
       "U+16A65", "U+16AC5", "U+16B55", "U+1D7D3", "U+1D7DD", "U+1D7E7",
       "U+1D7F1", "U+1D7FB", "U+1E145", "U+1E2F5", "U+1E955", "U+1FBF5"},
      {"U+0666", "U+06F6", "U+07C6", "U+096C", "U+09EC", "U+0A6C", "U+0AEC",
       "U+0B6C", "U+0BEC", "U+0C6C", "U+0CEC", "U+0D6C", "U+0DEC", "U+0E56",
       "U+0ED6", "U+0F26", "U+1046", "U+1096", "U+17E6", "U+1816", "U+194C",
       "U+19D6", "U+1A86", "U+1A96", "U+1B56", "U+1BB6", "U+1C46", "U+1C56",
       "U+A626", "U+A8D6", "U+A906", "U+A9D6", "U+A9F6", "U+AA56", "U+ABF6",
       "U+FF16", "U+104A6", "U+10D36", "U+1106C", "U+110F6", "U+1113C",
       "U+111D6", "U+112F6", "U+11456", "U+114D6", "U+11656", "U+116C6",
       "U+11736", "U+118E6", "U+11956", "U+11C56", "U+11D56", "U+11DA6",
       "U+16A66", "U+16AC6", "U+16B56", "U+1D7D4", "U+1D7DE", "U+1D7E8",
       "U+1D7F2", "U+1D7FC", "U+1E146", "U+1E2F6", "U+1E956", "U+1FBF6"},
      {"U+0667", "U+06F7", "U+07C7", "U+096D", "U+09ED", "U+0A6D", "U+0AED",
       "U+0B6D", "U+0BED", "U+0C6D", "U+0CED", "U+0D6D", "U+0DED", "U+0E57",
       "U+0ED7", "U+0F27", "U+1047", "U+1097", "U+17E7", "U+1817", "U+194D",
       "U+19D7", "U+1A87", "U+1A97", "U+1B57", "U+1BB7", "U+1C47", "U+1C57",
       "U+A627", "U+A8D7", "U+A907", "U+A9D7", "U+A9F7", "U+AA57", "U+ABF7",
       "U+FF17", "U+104A7", "U+10D37", "U+1106D", "U+110F7", "U+1113D",
       "U+111D7", "U+112F7", "U+11457", "U+114D7", "U+11657", "U+116C7",
       "U+11737", "U+118E7", "U+11957", "U+11C57", "U+11D57", "U+11DA7",
       "U+16A67", "U+16AC7", "U+16B57", "U+1D7D5", "U+1D7DF", "U+1D7E9",
       "U+1D7F3", "U+1D7FD", "U+1E147", "U+1E2F7", "U+1E957", "U+1FBF7"},
      {"U+0668", "U+06F8", "U+07C8", "U+096E", "U+09EE", "U+0A6E", "U+0AEE",
       "U+0B6E", "U+0BEE", "U+0C6E", "U+0CEE", "U+0D6E", "U+0DEE", "U+0E58",
       "U+0ED8", "U+0F28", "U+1048", "U+1098", "U+17E8", "U+1818", "U+194E",
       "U+19D8", "U+1A88", "U+1A98", "U+1B58", "U+1BB8", "U+1C48", "U+1C58",
       "U+A628", "U+A8D8", "U+A908", "U+A9D8", "U+A9F8", "U+AA58", "U+ABF8",
       "U+FF18", "U+104A8", "U+10D38", "U+1106E", "U+110F8", "U+1113E",
       "U+111D8", "U+112F8", "U+11458", "U+114D8", "U+11658", "U+116C8",
       "U+11738", "U+118E8", "U+11958", "U+11C58", "U+11D58", "U+11DA8",
       "U+16A68", "U+16AC8", "U+16B58", "U+1D7D6", "U+1D7E0", "U+1D7EA",
       "U+1D7F4", "U+1D7FE", "U+1E148", "U+1E2F8", "U+1E958", "U+1FBF8"},
      {"U+0669", "U+06F9", "U+07C9", "U+096F", "U+09EF", "U+0A6F", "U+0AEF",
       "U+0B6F", "U+0BEF", "U+0C6F", "U+0CEF", "U+0D6F", "U+0DEF", "U+0E59",
       "U+0ED9", "U+0F29", "U+1049", "U+1099", "U+17E9", "U+1819", "U+194F",
       "U+19D9", "U+1A89", "U+1A99", "U+1B59", "U+1BB9", "U+1C49", "U+1C59",
       "U+A629", "U+A8D9", "U+A909", "U+A9D9", "U+A9F9", "U+AA59", "U+ABF9",
       "U+FF19", "U+104A9", "U+10D39", "U+1106F", "U+110F9", "U+1113F",
       "U+111D9", "U+112F9", "U+11459", "U+114D9", "U+11659", "U+116C9",
       "U+11739", "U+118E9", "U+11959", "U+11C59", "U+11D59", "U+11DA9",
       "U+16A69", "U+16AC9", "U+16B59", "U+1D7D7", "U+1D7E1", "U+1D7EB",
       "U+1D7F5", "U+1D7FF", "U+1E149", "U+1E2F9", "U+1E959", "U+1FBF9"}>>

\* \d of a str pattern, and the characters int() takes for digits
IsDigit(c) ==
    \/ \E i \in 1..10 : DigitChars[i] = c
    \/ \E i \in 1..10 : c \in UnicodeDigits[i]

DigitVal(c) ==
    (CHOOSE i \in 1..10 : DigitChars[i] = c \/ c \in UnicodeDigits[i]) - 1

\* the white space of Unicode: what \s of a str pattern matches
WhiteSpace ==
    {"\t", "\n", "U+000B", "\f", "\r", "U+001C", "U+001D", "U+001E", "U+001F",
     " ", "U+0085", "U+00A0", "U+1680", "U+2000", "U+2001", "U+2002",
     "U+2003", "U+2004", "U+2005", "U+2006", "U+2007", "U+2008", "U+2009",
     "U+200A", "U+2028", "U+2029", "U+202F", "U+205F", "U+3000"}

\* the number the digits s write
RECURSIVE IntDigits(_)
IntDigits(s) ==
    IF Len(s) = 0 THEN 0
    ELSE IntDigits(SubSeq(s, 1, Len(s) - 1)) * 10 + DigitVal(s[Len(s)])

\* the zeros a run of digits begins with
LeadingZeros(s) ==
    IF \A i \in 1..Len(s) : DigitVal(s[i]) = 0 THEN Len(s)
    ELSE (CHOOSE i \in 1..Len(s) :
             /\ DigitVal(s[i]) # 0
             /\ \A j \in 1..(i - 1) : DigitVal(s[j]) = 0) - 1

\* int(s) for a non-empty run of digits s: the zeros in front add nothing
IntOf(s) == IntDigits(SubSeq(s, LeadingZeros(s) + 1, Len(s)))

\* sys.get_int_max_str_digits(): the longest run of digits int() converts
int_max_str_digits == 4300

\* int(s) of Python: ValueError (ok = FALSE) unless s is a run of digits
\* of at most int_max_str_digits characters
IntParse(s) ==
    IF Len(s) > 0 /\ Len(s) <= int_max_str_digits
          /\ \A i \in 1..Len(s) : IsDigit(s[i])
    THEN [ok |-> TRUE, val |-> IntOf(s)]
    ELSE [ok |-> FALSE, val |-> 0]

\* str(n) for n >= 0
RECURSIVE StrOf(_)
StrOf(n) ==
    IF n < 10 THEN <<DigitChars[n + 1]>>
    ELSE StrOf(n \div 10) \o <<DigitChars[(n % 10) + 1]>>

\* the index after the longest run of digits of s that starts at i
DigitRunEnd(s, i) ==
    IF \A j \in i..Len(s) : IsDigit(s[j]) THEN (IF i > Len(s) THEN i ELSE Len(s) + 1)
    ELSE CHOOSE j \in i..Len(s) :
            /\ ~IsDigit(s[j])
            /\ \A k \in i..(j - 1) : IsDigit(s[k])

\* s.replace(old, new) for a single character old and a string new
RECURSIVE Replace(_, _, _)
Replace(s, old, new) ==
    IF Len(s) = 0 THEN <<>>
    ELSE IF Len(s) = 1 THEN (IF s[1] = old THEN new ELSE s)
    ELSE Replace(SubSeq(s, 1, Len(s) \div 2), old, new)
            \o Replace(SubSeq(s, (Len(s) \div 2) + 1, Len(s)), old, new)

StartsWith(s, p) == Len(s) >= Len(p) /\ SubSeq(s, 1, Len(p)) = p

EndsWith(s, p) ==
    Len(s) >= Len(p) /\ SubSeq(s, Len(s) - Len(p) + 1, Len(s)) = p

\* Unbounded integers as two limbs, base 10^6
Limb == 1000 * 1000

Big(hi, lo) == [hi |-> hi + (lo \div Limb), lo |-> lo % Limb]

BigLess(x, y) == x.hi < y.hi \/ (x.hi = y.hi /\ x.lo < y.lo)

BigLeq(x, y) == x = y \/ BigLess(x, y)

-----------------------------------------------------------------------------
(* tag.py *)

WEEKLY == "WEEKLY"
REGULAR == "REGULAR"

MainStr == <<"m", "a", "i", "n">>

\* the character class [_|.] of both grammars
IsSep(c) == c \in {"_", "|", "."}

\* Tag.__init__ line 47: self._hash = -1
InvalidHash == [hi |-> -1, lo |-> Limb - 1]

\* Tag.__init__ line 49: self._hash = 9999999999
MainHash == [hi |-> 9999, lo |-> 999999]

\* the anchor $ of a pattern at position p of name: the end of the string, or just
\* before a newline that ends the string
AtEnd(name, p) == p = Len(name) + 1 \/ (p = Len(name) /\ name[p] = "\n")

\* re.search(r'^w[.|_](\d{4})[_|.](\d{2})$', name)
WeeklyMatch(name) ==
    /\ Len(name) >= 9
    /\ AtEnd(name, 10)
    /\ name[1] = "w"
    /\ IsSep(name[2])
    /\ \A i \in 3..6 : IsDigit(name[i])
    /\ IsSep(name[7])
    /\ \A i \in 8..9 : IsDigit(name[i])

\* re.search(r'^[v]?(\d+)([_|.]\d+)([_|.]\d+)?([_|.]rc(\d+))?$', name),
\* matched from left to right; p is the position reached.
\* ([_|.]\d+) at p
HasNumber(name, p) ==
    p <= Len(name) /\ IsSep(name[p]) /\ DigitRunEnd(name, p + 1) > p + 1

\* ([_|.]rc(\d+)) at p
HasRc(name, p) ==
    /\ p + 3 <= Len(name)
    /\ IsSep(name[p])
    /\ name[p + 1] = "r"
    /\ name[p + 2] = "c"
    /\ IsDigit(name[p + 3])

NoMatch == [ok |-> FALSE, g0 |-> <<>>, g1 |-> <<>>, g2 |-> <<>>, g4 |-> <<>>]

\* the optional rc group at p3, then the end of the string; an unmatched
\* optional group is <<>>
MatchRc(name, g0, g1, g2, p3) ==
    IF HasRc(name, p3)
    THEN IF AtEnd(name, DigitRunEnd(name, p3 + 3))
         THEN [ok |-> TRUE, g0 |-> g0, g1 |-> g1, g2 |-> g2,
               g4 |-> SubSeq(name, p3 + 3, DigitRunEnd(name, p3 + 3) - 1)]
         ELSE NoMatch
    ELSE IF AtEnd(name, p3)
         THEN [ok |-> TRUE, g0 |-> g0, g1 |-> g1, g2 |-> g2, g4 |-> <<>>]
         ELSE NoMatch

\* the optional patch group at p2
MatchPatch(name, g0, g1, p2) ==
    IF HasNumber(name, p2)
    THEN MatchRc(name, g0, g1,
                 SubSeq(name, p2, DigitRunEnd(name, p2 + 1) - 1),
                 DigitRunEnd(name, p2 + 1))
    ELSE MatchRc(name, g0, g1, <<>>, p2)

\* the minor group at p1
MatchMinor(name, g0, p1) ==
    IF HasNumber(name, p1)
    THEN MatchPatch(name, g0,
                    SubSeq(name, p1, DigitRunEnd(name, p1 + 1) - 1),
                    DigitRunEnd(name, p1 + 1))
    ELSE NoMatch

\* the major group at p0
MatchMajor(name, p0) ==
    IF DigitRunEnd(name, p0) > p0
    THEN MatchMinor(name, SubSeq(name, p0, DigitRunEnd(name, p0) - 1),
                    DigitRunEnd(name, p0))
    ELSE NoMatch

\* the groups g[0], g[1], g[2], g[4] of the match
RegularMatch(name) ==
    MatchMajor(name, IF Len(name) >= 1 /\ name[1] = "v" THEN 2 ELSE 1)

StripSeps(g) == Replace(Replace(g, ".", <<>>), "_", <<>>)

PartsOf(ok, major, minor, patch, rc, has_rc) ==
    [ok |-> ok /\ major.ok /\ minor.ok /\ patch.ok /\ rc.ok,
     major |-> major.val, minor |-> minor.val,
     patch |-> patch.val, rc |-> rc.val, has_rc |-> has_rc]

\* lines 98-114 without the default of lines 106-107: a missing rc is 0
PartsOfMatchRcZero(m) ==
    PartsOf(m.ok,
            IntParse(m.g0),
            IntParse(StripSeps(m.g1)),
            IntParse(IF m.g2 = <<>> THEN <<"0">> ELSE StripSeps(m.g2)),
            IF m.g4 = <<>> THEN [ok |-> TRUE, val |-> 0] ELSE IntParse(m.g4),
            m.g4 # <<>>)

\* lines 98-114 of Tag._regular: the four integers, or ValueError
PartsOfMatch(m) ==
    PartsOf(m.ok,
            IntParse(m.g0),
            IntParse(StripSeps(m.g1)),
            IntParse(IF m.g2 = <<>> THEN <<"0">> ELSE StripSeps(m.g2)),
            IF m.g4 = <<>> THEN [ok |-> TRUE, val |-> 99] ELSE IntParse(m.g4),
            m.g4 # <<>>)

RegularParts(name) == PartsOfMatch(RegularMatch(name))

\* line 117: major * 1000000 + minor * 10000 + patch * 100 + rc
RegularHash(major, minor, patch, rc) ==
    Big(major + (minor \div 100) + (patch \div 10000) + (rc \div Limb),
        (minor % 100) * 10000 + (patch % 10000) * 100 + (rc % Limb))

\* line 68: year * 100 + week
WeeklyHash(name) ==
    Big(0, IntOf(SubSeq(name, 3, 6)) * 100 + IntOf(SubSeq(name, 8, 9)))

TagObject(name, valid, weekly, main, hash) ==
    [name |-> name, valid |-> valid, is_weekly |-> weekly, is_main |-> main,
     hash |-> hash]

\* Tag._weekly
WeeklyTag(name) ==
    IF WeeklyMatch(name)
    THEN TagObject(name, TRUE, TRUE, FALSE, WeeklyHash(name))
    ELSE TagObject(name, FALSE, FALSE, FALSE, InvalidHash)

\* Tag._regular, lines 115-118, on the integers p
RegularTagOf(name, p) ==
    IF p.ok /\ ~(p.major < 9 \/ p.major > 1000)
    THEN TagObject(name, TRUE, FALSE, FALSE,
                   RegularHash(p.major, p.minor, p.patch, p.rc))
    ELSE TagObject(name, FALSE, FALSE, FALSE, InvalidHash)

\* Tag.__init__: the object's fields
Tag(name) ==
    IF EndsWith(name, MainStr)
    THEN TagObject(name, TRUE, FALSE, TRUE, MainHash)
    ELSE IF StartsWith(name, <<"w">>) THEN WeeklyTag(name)
    ELSE RegularTagOf(name, RegularParts(name))

\* is_weekly without the trunk
WeeklyFlag(tag) == tag.is_weekly

is_weekly(tag) == tag.is_main \/ tag.is_weekly

is_regular(tag) == ~tag.is_weekly \/ tag.is_main

is_valid(tag) == tag.valid

rel_name(tag) ==
    IF tag.is_main THEN MainStr
    ELSE IF ~tag.is_weekly /\ ~StartsWith(tag.name, <<"v">>)
    THEN Replace(<<"v">> \o tag.name, ".", <<"_">>)
    ELSE Replace(tag.name, ".", <<"_">>)

TagEq(a, b) == a.hash = b.hash
TagLt(a, b) == BigLess(a.hash, b.hash)
TagLe(a, b) == BigLeq(a.hash, b.hash)
TagGt(a, b) == BigLess(b.hash, a.hash)
TagGe(a, b) == BigLeq(b.hash, a.hash)

matches_release(tag, rel) ==
    IF is_weekly(tag) /\ rel = WEEKLY THEN TRUE
    ELSE IF is_regular(tag) /\ rel = REGULAR THEN TRUE
    ELSE FALSE

-----------------------------------------------------------------------------
(* changelog.py: get_package_diff *)

\* [sub['package'] for sub in data] as a set
PackageSet(data) == {data[i].package : i \in 1..Len(data)}

\* a mis-computed `added`: the previous packages are not subtracted
AddedNoSubtract(pkgs, previous_pkgs) == pkgs

\* line 78: SortedList(set(pkgs) - set(previous_pkgs))
Added(pkgs, previous_pkgs) == pkgs \ previous_pkgs

\* line 77: SortedList(set(previous_pkgs) - set(pkgs))
Removed(pkgs, previous_pkgs) == previous_pkgs \ pkgs

\* `key in d` and d[key] of a SortedDict keyed by Tag (Tag.__eq__, Tag.__hash__)
DiffHas(d, tag) == \E e \in d : TagEq(Tag(e.tag), tag)

DiffGet(d, tag) == CHOOSE e \in d : TagEq(Tag(e.tag), tag)

\* d[key] = value
DiffPut(d, e) == {x \in d : ~TagEq(Tag(x.tag), Tag(e.tag))} \cup {e}

\* one iteration of `for r in releases` (lines 73-80)
DiffStep ==
    /\ diff_idx < Len(releases)
    /\ LET r == releases[diff_idx + 1]
       IN  /\ diff_result' =
                IF last_release # <<>>
                THEN LET previous_pkgs == PackageSet(last_release[1])
                         pkgs == PackageSet(r.data)
                     IN  DiffPut(diff_result,
                                 [tag |-> r.name,
                                  added |-> Added(pkgs, previous_pkgs),
                                  removed |-> Removed(pkgs, previous_pkgs)])
                ELSE diff_result
           /\ last_release' = <<r.data>>
    /\ diff_idx' = diff_idx + 1
    /\ UNCHANGED releases

-----------------------------------------------------------------------------
(* changelog.py: get_package_repos, _ticket_number, get_merged_tickets *)

TrunkTail == <<"~">> \o MainStr

LowerChars == <<"a", "b", "c", "d", "e", "f", "g", "h", "i", "j", "k", "l", "m",
                "n", "o", "p", "q", "r", "s", "t", "u", "v", "w", "x", "y", "z">>
UpperChars == <<"A", "B", "C", "D", "E", "F", "G", "H", "I", "J", "K", "L", "M",
                "N", "O", "P", "Q", "R", "S", "T", "U", "V", "W", "X", "Y", "Z">>

\* str.upper() of the characters other than a-z that it changes: the
\* character and the characters it becomes
UpperPairs ==
    <<<<"U+00B5", <<"U+039C">>>>, <<"U+00DF", <<"S", "S">>>>,
      <<"U+00E0", <<"U+00C0">>>>, <<"U+00E1", <<"U+00C1">>>>,
      <<"U+00E2", <<"U+00C2">>>>, <<"U+00E3", <<"U+00C3">>>>,
      <<"U+00E4", <<"U+00C4">>>>, <<"U+00E5", <<"U+00C5">>>>,
      <<"U+00E6", <<"U+00C6">>>>, <<"U+00E7", <<"U+00C7">>>>,
      <<"U+00E8", <<"U+00C8">>>>, <<"U+00E9", <<"U+00C9">>>>,
      <<"U+00EA", <<"U+00CA">>>>, <<"U+00EB", <<"U+00CB">>>>,
      <<"U+00EC", <<"U+00CC">>>>, <<"U+00ED", <<"U+00CD">>>>,
      <<"U+00EE", <<"U+00CE">>>>, <<"U+00EF", <<"U+00CF">>>>,
      <<"U+00F0", <<"U+00D0">>>>, <<"U+00F1", <<"U+00D1">>>>,
      <<"U+00F2", <<"U+00D2">>>>, <<"U+00F3", <<"U+00D3">>>>,
      <<"U+00F4", <<"U+00D4">>>>, <<"U+00F5", <<"U+00D5">>>>,
      <<"U+00F6", <<"U+00D6">>>>, <<"U+00F8", <<"U+00D8">>>>,
      <<"U+00F9", <<"U+00D9">>>>, <<"U+00FA", <<"U+00DA">>>>,
      <<"U+00FB", <<"U+00DB">>>>, <<"U+00FC", <<"U+00DC">>>>,
      <<"U+00FD", <<"U+00DD">>>>, <<"U+00FE", <<"U+00DE">>>>,
      <<"U+00FF", <<"U+0178">>>>, <<"U+0101", <<"U+0100">>>>,
      <<"U+0103", <<"U+0102">>>>, <<"U+0105", <<"U+0104">>>>,
      <<"U+0107", <<"U+0106">>>>, <<"U+0109", <<"U+0108">>>>,
      <<"U+010B", <<"U+010A">>>>, <<"U+010D", <<"U+010C">>>>,
      <<"U+010F", <<"U+010E">>>>, <<"U+0111", <<"U+0110">>>>,
      <<"U+0113", <<"U+0112">>>>, <<"U+0115", <<"U+0114">>>>,
      <<"U+0117", <<"U+0116">>>>, <<"U+0119", <<"U+0118">>>>,
      <<"U+011B", <<"U+011A">>>>, <<"U+011D", <<"U+011C">>>>,
      <<"U+011F", <<"U+011E">>>>, <<"U+0121", <<"U+0120">>>>,
      <<"U+0123", <<"U+0122">>>>, <<"U+0125", <<"U+0124">>>>,
      <<"U+0127", <<"U+0126">>>>, <<"U+0129", <<"U+0128">>>>,
      <<"U+012B", <<"U+012A">>>>, <<"U+012D", <<"U+012C">>>>,
      <<"U+012F", <<"U+012E">>>>, <<"U+0131", <<"I">>>>,
      <<"U+0133", <<"U+0132">>>>, <<"U+0135", <<"U+0134">>>>,
      <<"U+0137", <<"U+0136">>>>, <<"U+013A", <<"U+0139">>>>,
      <<"U+013C", <<"U+013B">>>>, <<"U+013E", <<"U+013D">>>>,
      <<"U+0140", <<"U+013F">>>>, <<"U+0142", <<"U+0141">>>>,
      <<"U+0144", <<"U+0143">>>>, <<"U+0146", <<"U+0145">>>>,
      <<"U+0148", <<"U+0147">>>>, <<"U+0149", <<"U+02BC", "N">>>>,
      <<"U+014B", <<"U+014A">>>>, <<"U+014D", <<"U+014C">>>>,
      <<"U+014F", <<"U+014E">>>>, <<"U+0151", <<"U+0150">>>>,
      <<"U+0153", <<"U+0152">>>>, <<"U+0155", <<"U+0154">>>>,
      <<"U+0157", <<"U+0156">>>>, <<"U+0159", <<"U+0158">>>>,
      <<"U+015B", <<"U+015A">>>>, <<"U+015D", <<"U+015C">>>>,
      <<"U+015F", <<"U+015E">>>>, <<"U+0161", <<"U+0160">>>>,
      <<"U+0163", <<"U+0162">>>>, <<"U+0165", <<"U+0164">>>>,
      <<"U+0167", <<"U+0166">>>>, <<"U+0169", <<"U+0168">>>>,
      <<"U+016B", <<"U+016A">>>>, <<"U+016D", <<"U+016C">>>>,
      <<"U+016F", <<"U+016E">>>>, <<"U+0171", <<"U+0170">>>>,
      <<"U+0173", <<"U+0172">>>>, <<"U+0175", <<"U+0174">>>>,
      <<"U+0177", <<"U+0176">>>>, <<"U+017A", <<"U+0179">>>>,
      <<"U+017C", <<"U+017B">>>>, <<"U+017E", <<"U+017D">>>>,
      <<"U+017F", <<"S">>>>, <<"U+0180", <<"U+0243">>>>,
      <<"U+0183", <<"U+0182">>>>, <<"U+0185", <<"U+0184">>>>,
      <<"U+0188", <<"U+0187">>>>, <<"U+018C", <<"U+018B">>>>,
      <<"U+0192", <<"U+0191">>>>, <<"U+0195", <<"U+01F6">>>>,
      <<"U+0199", <<"U+0198">>>>, <<"U+019A", <<"U+023D">>>>,
      <<"U+019E", <<"U+0220">>>>, <<"U+01A1", <<"U+01A0">>>>,
      <<"U+01A3", <<"U+01A2">>>>, <<"U+01A5", <<"U+01A4">>>>,
      <<"U+01A8", <<"U+01A7">>>>, <<"U+01AD", <<"U+01AC">>>>,
      <<"U+01B0", <<"U+01AF">>>>, <<"U+01B4", <<"U+01B3">>>>,
      <<"U+01B6", <<"U+01B5">>>>, <<"U+01B9", <<"U+01B8">>>>,
      <<"U+01BD", <<"U+01BC">>>>, <<"U+01BF", <<"U+01F7">>>>,
      <<"U+01C5", <<"U+01C4">>>>, <<"U+01C6", <<"U+01C4">>>>,
      <<"U+01C8", <<"U+01C7">>>>, <<"U+01C9", <<"U+01C7">>>>,
      <<"U+01CB", <<"U+01CA">>>>, <<"U+01CC", <<"U+01CA">>>>,
      <<"U+01CE", <<"U+01CD">>>>, <<"U+01D0", <<"U+01CF">>>>,
      <<"U+01D2", <<"U+01D1">>>>, <<"U+01D4", <<"U+01D3">>>>,
      <<"U+01D6", <<"U+01D5">>>>, <<"U+01D8", <<"U+01D7">>>>,
      <<"U+01DA", <<"U+01D9">>>>, <<"U+01DC", <<"U+01DB">>>>,
      <<"U+01DD", <<"U+018E">>>>, <<"U+01DF", <<"U+01DE">>>>,
      <<"U+01E1", <<"U+01E0">>>>, <<"U+01E3", <<"U+01E2">>>>,
      <<"U+01E5", <<"U+01E4">>>>, <<"U+01E7", <<"U+01E6">>>>,
      <<"U+01E9", <<"U+01E8">>>>, <<"U+01EB", <<"U+01EA">>>>,
      <<"U+01ED", <<"U+01EC">>>>, <<"U+01EF", <<"U+01EE">>>>,
      <<"U+01F0", <<"J", "U+030C">>>>, <<"U+01F2", <<"U+01F1">>>>,
      <<"U+01F3", <<"U+01F1">>>>, <<"U+01F5", <<"U+01F4">>>>,
      <<"U+01F9", <<"U+01F8">>>>, <<"U+01FB", <<"U+01FA">>>>,
      <<"U+01FD", <<"U+01FC">>>>, <<"U+01FF", <<"U+01FE">>>>,
      <<"U+0201", <<"U+0200">>>>, <<"U+0203", <<"U+0202">>>>,
      <<"U+0205", <<"U+0204">>>>, <<"U+0207", <<"U+0206">>>>,
      <<"U+0209", <<"U+0208">>>>, <<"U+020B", <<"U+020A">>>>,
      <<"U+020D", <<"U+020C">>>>, <<"U+020F", <<"U+020E">>>>,
      <<"U+0211", <<"U+0210">>>>, <<"U+0213", <<"U+0212">>>>,
      <<"U+0215", <<"U+0214">>>>, <<"U+0217", <<"U+0216">>>>,
      <<"U+0219", <<"U+0218">>>>, <<"U+021B", <<"U+021A">>>>,
      <<"U+021D", <<"U+021C">>>>, <<"U+021F", <<"U+021E">>>>,
      <<"U+0223", <<"U+0222">>>>, <<"U+0225", <<"U+0224">>>>,
      <<"U+0227", <<"U+0226">>>>, <<"U+0229", <<"U+0228">>>>,
      <<"U+022B", <<"U+022A">>>>, <<"U+022D", <<"U+022C">>>>,
      <<"U+022F", <<"U+022E">>>>, <<"U+0231", <<"U+0230">>>>,
      <<"U+0233", <<"U+0232">>>>, <<"U+023C", <<"U+023B">>>>,
      <<"U+023F", <<"U+2C7E">>>>, <<"U+0240", <<"U+2C7F">>>>,
      <<"U+0242", <<"U+0241">>>>, <<"U+0247", <<"U+0246">>>>,
      <<"U+0249", <<"U+0248">>>>, <<"U+024B", <<"U+024A">>>>,
      <<"U+024D", <<"U+024C">>>>, <<"U+024F", <<"U+024E">>>>,
      <<"U+0250", <<"U+2C6F">>>>, <<"U+0251", <<"U+2C6D">>>>,
      <<"U+0252", <<"U+2C70">>>>, <<"U+0253", <<"U+0181">>>>,
      <<"U+0254", <<"U+0186">>>>, <<"U+0256", <<"U+0189">>>>,
      <<"U+0257", <<"U+018A">>>>, <<"U+0259", <<"U+018F">>>>,
      <<"U+025B", <<"U+0190">>>>, <<"U+025C", <<"U+A7AB">>>>,
      <<"U+0260", <<"U+0193">>>>, <<"U+0261", <<"U+A7AC">>>>,
      <<"U+0263", <<"U+0194">>>>, <<"U+0265", <<"U+A78D">>>>,
      <<"U+0266", <<"U+A7AA">>>>, <<"U+0268", <<"U+0197">>>>,
      <<"U+0269", <<"U+0196">>>>, <<"U+026A", <<"U+A7AE">>>>,
      <<"U+026B", <<"U+2C62">>>>, <<"U+026C", <<"U+A7AD">>>>,
      <<"U+026F", <<"U+019C">>>>, <<"U+0271", <<"U+2C6E">>>>,
      <<"U+0272", <<"U+019D">>>>, <<"U+0275", <<"U+019F">>>>,
      <<"U+027D", <<"U+2C64">>>>, <<"U+0280", <<"U+01A6">>>>,
      <<"U+0282", <<"U+A7C5">>>>, <<"U+0283", <<"U+01A9">>>>,
      <<"U+0287", <<"U+A7B1">>>>, <<"U+0288", <<"U+01AE">>>>,
      <<"U+0289", <<"U+0244">>>>, <<"U+028A", <<"U+01B1">>>>,
      <<"U+028B", <<"U+01B2">>>>, <<"U+028C", <<"U+0245">>>>,
      <<"U+0292", <<"U+01B7">>>>, <<"U+029D", <<"U+A7B2">>>>,
      <<"U+029E", <<"U+A7B0">>>>, <<"U+0345", <<"U+0399">>>>,
      <<"U+0371", <<"U+0370">>>>, <<"U+0373", <<"U+0372">>>>,
      <<"U+0377", <<"U+0376">>>>, <<"U+037B", <<"U+03FD">>>>,
      <<"U+037C", <<"U+03FE">>>>, <<"U+037D", <<"U+03FF">>>>,
      <<"U+0390", <<"U+0399", "U+0308", "U+0301">>>>,
      <<"U+03AC", <<"U+0386">>>>, <<"U+03AD", <<"U+0388">>>>,
      <<"U+03AE", <<"U+0389">>>>, <<"U+03AF", <<"U+038A">>>>,
      <<"U+03B0", <<"U+03A5", "U+0308", "U+0301">>>>,
      <<"U+03B1", <<"U+0391">>>>, <<"U+03B2", <<"U+0392">>>>,
      <<"U+03B3", <<"U+0393">>>>, <<"U+03B4", <<"U+0394">>>>,
      <<"U+03B5", <<"U+0395">>>>, <<"U+03B6", <<"U+0396">>>>,
      <<"U+03B7", <<"U+0397">>>>, <<"U+03B8", <<"U+0398">>>>,
      <<"U+03B9", <<"U+0399">>>>, <<"U+03BA", <<"U+039A">>>>,
      <<"U+03BB", <<"U+039B">>>>, <<"U+03BC", <<"U+039C">>>>,
      <<"U+03BD", <<"U+039D">>>>, <<"U+03BE", <<"U+039E">>>>,
      <<"U+03BF", <<"U+039F">>>>, <<"U+03C0", <<"U+03A0">>>>,
      <<"U+03C1", <<"U+03A1">>>>, <<"U+03C2", <<"U+03A3">>>>,
      <<"U+03C3", <<"U+03A3">>>>, <<"U+03C4", <<"U+03A4">>>>,
      <<"U+03C5", <<"U+03A5">>>>, <<"U+03C6", <<"U+03A6">>>>,
      <<"U+03C7", <<"U+03A7">>>>, <<"U+03C8", <<"U+03A8">>>>,
      <<"U+03C9", <<"U+03A9">>>>, <<"U+03CA", <<"U+03AA">>>>,
      <<"U+03CB", <<"U+03AB">>>>, <<"U+03CC", <<"U+038C">>>>,
      <<"U+03CD", <<"U+038E">>>>, <<"U+03CE", <<"U+038F">>>>,
      <<"U+03D0", <<"U+0392">>>>, <<"U+03D1", <<"U+0398">>>>,
      <<"U+03D5", <<"U+03A6">>>>, <<"U+03D6", <<"U+03A0">>>>,
      <<"U+03D7", <<"U+03CF">>>>, <<"U+03D9", <<"U+03D8">>>>,
      <<"U+03DB", <<"U+03DA">>>>, <<"U+03DD", <<"U+03DC">>>>,
      <<"U+03DF", <<"U+03DE">>>>, <<"U+03E1", <<"U+03E0">>>>,
      <<"U+03E3", <<"U+03E2">>>>, <<"U+03E5", <<"U+03E4">>>>,
      <<"U+03E7", <<"U+03E6">>>>, <<"U+03E9", <<"U+03E8">>>>,
      <<"U+03EB", <<"U+03EA">>>>, <<"U+03ED", <<"U+03EC">>>>,
      <<"U+03EF", <<"U+03EE">>>>, <<"U+03F0", <<"U+039A">>>>,
      <<"U+03F1", <<"U+03A1">>>>, <<"U+03F2", <<"U+03F9">>>>,
      <<"U+03F3", <<"U+037F">>>>, <<"U+03F5", <<"U+0395">>>>,
      <<"U+03F8", <<"U+03F7">>>>, <<"U+03FB", <<"U+03FA">>>>,
      <<"U+0430", <<"U+0410">>>>, <<"U+0431", <<"U+0411">>>>,
      <<"U+0432", <<"U+0412">>>>, <<"U+0433", <<"U+0413">>>>,
      <<"U+0434", <<"U+0414">>>>, <<"U+0435", <<"U+0415">>>>,
      <<"U+0436", <<"U+0416">>>>, <<"U+0437", <<"U+0417">>>>,
      <<"U+0438", <<"U+0418">>>>, <<"U+0439", <<"U+0419">>>>,
      <<"U+043A", <<"U+041A">>>>, <<"U+043B", <<"U+041B">>>>,
      <<"U+043C", <<"U+041C">>>>, <<"U+043D", <<"U+041D">>>>,
      <<"U+043E", <<"U+041E">>>>, <<"U+043F", <<"U+041F">>>>,
      <<"U+0440", <<"U+0420">>>>, <<"U+0441", <<"U+0421">>>>,
      <<"U+0442", <<"U+0422">>>>, <<"U+0443", <<"U+0423">>>>,
      <<"U+0444", <<"U+0424">>>>, <<"U+0445", <<"U+0425">>>>,
      <<"U+0446", <<"U+0426">>>>, <<"U+0447", <<"U+0427">>>>,
      <<"U+0448", <<"U+0428">>>>, <<"U+0449", <<"U+0429">>>>,
      <<"U+044A", <<"U+042A">>>>, <<"U+044B", <<"U+042B">>>>,
      <<"U+044C", <<"U+042C">>>>, <<"U+044D", <<"U+042D">>>>,
      <<"U+044E", <<"U+042E">>>>, <<"U+044F", <<"U+042F">>>>,
      <<"U+0450", <<"U+0400">>>>, <<"U+0451", <<"U+0401">>>>,
      <<"U+0452", <<"U+0402">>>>, <<"U+0453", <<"U+0403">>>>,
      <<"U+0454", <<"U+0404">>>>, <<"U+0455", <<"U+0405">>>>,
      <<"U+0456", <<"U+0406">>>>, <<"U+0457", <<"U+0407">>>>,
      <<"U+0458", <<"U+0408">>>>, <<"U+0459", <<"U+0409">>>>,
      <<"U+045A", <<"U+040A">>>>, <<"U+045B", <<"U+040B">>>>,
      <<"U+045C", <<"U+040C">>>>, <<"U+045D", <<"U+040D">>>>,
      <<"U+045E", <<"U+040E">>>>, <<"U+045F", <<"U+040F">>>>,
      <<"U+0461", <<"U+0460">>>>, <<"U+0463", <<"U+0462">>>>,
      <<"U+0465", <<"U+0464">>>>, <<"U+0467", <<"U+0466">>>>,
      <<"U+0469", <<"U+0468">>>>, <<"U+046B", <<"U+046A">>>>,
      <<"U+046D", <<"U+046C">>>>, <<"U+046F", <<"U+046E">>>>,
      <<"U+0471", <<"U+0470">>>>, <<"U+0473", <<"U+0472">>>>,
      <<"U+0475", <<"U+0474">>>>, <<"U+0477", <<"U+0476">>>>,
      <<"U+0479", <<"U+0478">>>>, <<"U+047B", <<"U+047A">>>>,
      <<"U+047D", <<"U+047C">>>>, <<"U+047F", <<"U+047E">>>>,
      <<"U+0481", <<"U+0480">>>>, <<"U+048B", <<"U+048A">>>>,
      <<"U+048D", <<"U+048C">>>>, <<"U+048F", <<"U+048E">>>>,
      <<"U+0491", <<"U+0490">>>>, <<"U+0493", <<"U+0492">>>>,
      <<"U+0495", <<"U+0494">>>>, <<"U+0497", <<"U+0496">>>>,
      <<"U+0499", <<"U+0498">>>>, <<"U+049B", <<"U+049A">>>>,
      <<"U+049D", <<"U+049C">>>>, <<"U+049F", <<"U+049E">>>>,
      <<"U+04A1", <<"U+04A0">>>>, <<"U+04A3", <<"U+04A2">>>>,
      <<"U+04A5", <<"U+04A4">>>>, <<"U+04A7", <<"U+04A6">>>>,
      <<"U+04A9", <<"U+04A8">>>>, <<"U+04AB", <<"U+04AA">>>>,
      <<"U+04AD", <<"U+04AC">>>>, <<"U+04AF", <<"U+04AE">>>>,
      <<"U+04B1", <<"U+04B0">>>>, <<"U+04B3", <<"U+04B2">>>>,
      <<"U+04B5", <<"U+04B4">>>>, <<"U+04B7", <<"U+04B6">>>>,
      <<"U+04B9", <<"U+04B8">>>>, <<"U+04BB", <<"U+04BA">>>>,
      <<"U+04BD", <<"U+04BC">>>>, <<"U+04BF", <<"U+04BE">>>>,
      <<"U+04C2", <<"U+04C1">>>>, <<"U+04C4", <<"U+04C3">>>>,
      <<"U+04C6", <<"U+04C5">>>>, <<"U+04C8", <<"U+04C7">>>>,
      <<"U+04CA", <<"U+04C9">>>>, <<"U+04CC", <<"U+04CB">>>>,
      <<"U+04CE", <<"U+04CD">>>>, <<"U+04CF", <<"U+04C0">>>>,
      <<"U+04D1", <<"U+04D0">>>>, <<"U+04D3", <<"U+04D2">>>>,
      <<"U+04D5", <<"U+04D4">>>>, <<"U+04D7", <<"U+04D6">>>>,
      <<"U+04D9", <<"U+04D8">>>>, <<"U+04DB", <<"U+04DA">>>>,
      <<"U+04DD", <<"U+04DC">>>>, <<"U+04DF", <<"U+04DE">>>>,
      <<"U+04E1", <<"U+04E0">>>>, <<"U+04E3", <<"U+04E2">>>>,
      <<"U+04E5", <<"U+04E4">>>>, <<"U+04E7", <<"U+04E6">>>>,
      <<"U+04E9", <<"U+04E8">>>>, <<"U+04EB", <<"U+04EA">>>>,
      <<"U+04ED", <<"U+04EC">>>>, <<"U+04EF", <<"U+04EE">>>>,
      <<"U+04F1", <<"U+04F0">>>>, <<"U+04F3", <<"U+04F2">>>>,
      <<"U+04F5", <<"U+04F4">>>>, <<"U+04F7", <<"U+04F6">>>>,
      <<"U+04F9", <<"U+04F8">>>>, <<"U+04FB", <<"U+04FA">>>>,
      <<"U+04FD", <<"U+04FC">>>>, <<"U+04FF", <<"U+04FE">>>>,
      <<"U+0501", <<"U+0500">>>>, <<"U+0503", <<"U+0502">>>>,
      <<"U+0505", <<"U+0504">>>>, <<"U+0507", <<"U+0506">>>>,
      <<"U+0509", <<"U+0508">>>>, <<"U+050B", <<"U+050A">>>>,
      <<"U+050D", <<"U+050C">>>>, <<"U+050F", <<"U+050E">>>>,
      <<"U+0511", <<"U+0510">>>>, <<"U+0513", <<"U+0512">>>>,
      <<"U+0515", <<"U+0514">>>>, <<"U+0517", <<"U+0516">>>>,
      <<"U+0519", <<"U+0518">>>>, <<"U+051B", <<"U+051A">>>>,
      <<"U+051D", <<"U+051C">>>>, <<"U+051F", <<"U+051E">>>>,
      <<"U+0521", <<"U+0520">>>>, <<"U+0523", <<"U+0522">>>>,
      <<"U+0525", <<"U+0524">>>>, <<"U+0527", <<"U+0526">>>>,
      <<"U+0529", <<"U+0528">>>>, <<"U+052B", <<"U+052A">>>>,
      <<"U+052D", <<"U+052C">>>>, <<"U+052F", <<"U+052E">>>>,
      <<"U+0561", <<"U+0531">>>>, <<"U+0562", <<"U+0532">>>>,
      <<"U+0563", <<"U+0533">>>>, <<"U+0564", <<"U+0534">>>>,
      <<"U+0565", <<"U+0535">>>>, <<"U+0566", <<"U+0536">>>>,
      <<"U+0567", <<"U+0537">>>>, <<"U+0568", <<"U+0538">>>>,
      <<"U+0569", <<"U+0539">>>>, <<"U+056A", <<"U+053A">>>>,
      <<"U+056B", <<"U+053B">>>>, <<"U+056C", <<"U+053C">>>>,
      <<"U+056D", <<"U+053D">>>>, <<"U+056E", <<"U+053E">>>>,
      <<"U+056F", <<"U+053F">>>>, <<"U+0570", <<"U+0540">>>>,
      <<"U+0571", <<"U+0541">>>>, <<"U+0572", <<"U+0542">>>>,
      <<"U+0573", <<"U+0543">>>>, <<"U+0574", <<"U+0544">>>>,
      <<"U+0575", <<"U+0545">>>>, <<"U+0576", <<"U+0546">>>>,
      <<"U+0577", <<"U+0547">>>>, <<"U+0578", <<"U+0548">>>>,
      <<"U+0579", <<"U+0549">>>>, <<"U+057A", <<"U+054A">>>>,
      <<"U+057B", <<"U+054B">>>>, <<"U+057C", <<"U+054C">>>>,
      <<"U+057D", <<"U+054D">>>>, <<"U+057E", <<"U+054E">>>>,
      <<"U+057F", <<"U+054F">>>>, <<"U+0580", <<"U+0550">>>>,
      <<"U+0581", <<"U+0551">>>>, <<"U+0582", <<"U+0552">>>>,
      <<"U+0583", <<"U+0553">>>>, <<"U+0584", <<"U+0554">>>>,
      <<"U+0585", <<"U+0555">>>>, <<"U+0586", <<"U+0556">>>>,
      <<"U+0587", <<"U+0535", "U+0552">>>>, <<"U+10D0", <<"U+1C90">>>>,
      <<"U+10D1", <<"U+1C91">>>>, <<"U+10D2", <<"U+1C92">>>>,
      <<"U+10D3", <<"U+1C93">>>>, <<"U+10D4", <<"U+1C94">>>>,
      <<"U+10D5", <<"U+1C95">>>>, <<"U+10D6", <<"U+1C96">>>>,
      <<"U+10D7", <<"U+1C97">>>>, <<"U+10D8", <<"U+1C98">>>>,
      <<"U+10D9", <<"U+1C99">>>>, <<"U+10DA", <<"U+1C9A">>>>,
      <<"U+10DB", <<"U+1C9B">>>>, <<"U+10DC", <<"U+1C9C">>>>,
      <<"U+10DD", <<"U+1C9D">>>>, <<"U+10DE", <<"U+1C9E">>>>,
      <<"U+10DF", <<"U+1C9F">>>>, <<"U+10E0", <<"U+1CA0">>>>,
      <<"U+10E1", <<"U+1CA1">>>>, <<"U+10E2", <<"U+1CA2">>>>,
      <<"U+10E3", <<"U+1CA3">>>>, <<"U+10E4", <<"U+1CA4">>>>,
      <<"U+10E5", <<"U+1CA5">>>>, <<"U+10E6", <<"U+1CA6">>>>,
      <<"U+10E7", <<"U+1CA7">>>>, <<"U+10E8", <<"U+1CA8">>>>,
      <<"U+10E9", <<"U+1CA9">>>>, <<"U+10EA", <<"U+1CAA">>>>,
      <<"U+10EB", <<"U+1CAB">>>>, <<"U+10EC", <<"U+1CAC">>>>,
      <<"U+10ED", <<"U+1CAD">>>>, <<"U+10EE", <<"U+1CAE">>>>,
      <<"U+10EF", <<"U+1CAF">>>>, <<"U+10F0", <<"U+1CB0">>>>,
      <<"U+10F1", <<"U+1CB1">>>>, <<"U+10F2", <<"U+1CB2">>>>,
      <<"U+10F3", <<"U+1CB3">>>>, <<"U+10F4", <<"U+1CB4">>>>,
      <<"U+10F5", <<"U+1CB5">>>>, <<"U+10F6", <<"U+1CB6">>>>,
      <<"U+10F7", <<"U+1CB7">>>>, <<"U+10F8", <<"U+1CB8">>>>,
      <<"U+10F9", <<"U+1CB9">>>>, <<"U+10FA", <<"U+1CBA">>>>,
      <<"U+10FD", <<"U+1CBD">>>>, <<"U+10FE", <<"U+1CBE">>>>,
      <<"U+10FF", <<"U+1CBF">>>>, <<"U+13F8", <<"U+13F0">>>>,
      <<"U+13F9", <<"U+13F1">>>>, <<"U+13FA", <<"U+13F2">>>>,
      <<"U+13FB", <<"U+13F3">>>>, <<"U+13FC", <<"U+13F4">>>>,
      <<"U+13FD", <<"U+13F5">>>>, <<"U+1C80", <<"U+0412">>>>,
      <<"U+1C81", <<"U+0414">>>>, <<"U+1C82", <<"U+041E">>>>,
      <<"U+1C83", <<"U+0421">>>>, <<"U+1C84", <<"U+0422">>>>,
      <<"U+1C85", <<"U+0422">>>>, <<"U+1C86", <<"U+042A">>>>,
      <<"U+1C87", <<"U+0462">>>>, <<"U+1C88", <<"U+A64A">>>>,
      <<"U+1D79", <<"U+A77D">>>>, <<"U+1D7D", <<"U+2C63">>>>,
      <<"U+1D8E", <<"U+A7C6">>>>, <<"U+1E01", <<"U+1E00">>>>,
      <<"U+1E03", <<"U+1E02">>>>, <<"U+1E05", <<"U+1E04">>>>,
      <<"U+1E07", <<"U+1E06">>>>, <<"U+1E09", <<"U+1E08">>>>,
      <<"U+1E0B", <<"U+1E0A">>>>, <<"U+1E0D", <<"U+1E0C">>>>,
      <<"U+1E0F", <<"U+1E0E">>>>, <<"U+1E11", <<"U+1E10">>>>,
      <<"U+1E13", <<"U+1E12">>>>, <<"U+1E15", <<"U+1E14">>>>,
      <<"U+1E17", <<"U+1E16">>>>, <<"U+1E19", <<"U+1E18">>>>,
      <<"U+1E1B", <<"U+1E1A">>>>, <<"U+1E1D", <<"U+1E1C">>>>,
      <<"U+1E1F", <<"U+1E1E">>>>, <<"U+1E21", <<"U+1E20">>>>,
      <<"U+1E23", <<"U+1E22">>>>, <<"U+1E25", <<"U+1E24">>>>,
      <<"U+1E27", <<"U+1E26">>>>, <<"U+1E29", <<"U+1E28">>>>,
      <<"U+1E2B", <<"U+1E2A">>>>, <<"U+1E2D", <<"U+1E2C">>>>,
      <<"U+1E2F", <<"U+1E2E">>>>, <<"U+1E31", <<"U+1E30">>>>,
      <<"U+1E33", <<"U+1E32">>>>, <<"U+1E35", <<"U+1E34">>>>,
      <<"U+1E37", <<"U+1E36">>>>, <<"U+1E39", <<"U+1E38">>>>,
      <<"U+1E3B", <<"U+1E3A">>>>, <<"U+1E3D", <<"U+1E3C">>>>,
      <<"U+1E3F", <<"U+1E3E">>>>, <<"U+1E41", <<"U+1E40">>>>,
      <<"U+1E43", <<"U+1E42">>>>, <<"U+1E45", <<"U+1E44">>>>,
      <<"U+1E47", <<"U+1E46">>>>, <<"U+1E49", <<"U+1E48">>>>,
      <<"U+1E4B", <<"U+1E4A">>>>, <<"U+1E4D", <<"U+1E4C">>>>,
      <<"U+1E4F", <<"U+1E4E">>>>, <<"U+1E51", <<"U+1E50">>>>,
      <<"U+1E53", <<"U+1E52">>>>, <<"U+1E55", <<"U+1E54">>>>,
      <<"U+1E57", <<"U+1E56">>>>, <<"U+1E59", <<"U+1E58">>>>,
      <<"U+1E5B", <<"U+1E5A">>>>, <<"U+1E5D", <<"U+1E5C">>>>,
      <<"U+1E5F", <<"U+1E5E">>>>, <<"U+1E61", <<"U+1E60">>>>,
      <<"U+1E63", <<"U+1E62">>>>, <<"U+1E65", <<"U+1E64">>>>,
      <<"U+1E67", <<"U+1E66">>>>, <<"U+1E69", <<"U+1E68">>>>,
      <<"U+1E6B", <<"U+1E6A">>>>, <<"U+1E6D", <<"U+1E6C">>>>,
      <<"U+1E6F", <<"U+1E6E">>>>, <<"U+1E71", <<"U+1E70">>>>,
      <<"U+1E73", <<"U+1E72">>>>, <<"U+1E75", <<"U+1E74">>>>,
      <<"U+1E77", <<"U+1E76">>>>, <<"U+1E79", <<"U+1E78">>>>,
      <<"U+1E7B", <<"U+1E7A">>>>, <<"U+1E7D", <<"U+1E7C">>>>,
      <<"U+1E7F", <<"U+1E7E">>>>, <<"U+1E81", <<"U+1E80">>>>,
      <<"U+1E83", <<"U+1E82">>>>, <<"U+1E85", <<"U+1E84">>>>,
      <<"U+1E87", <<"U+1E86">>>>, <<"U+1E89", <<"U+1E88">>>>,
      <<"U+1E8B", <<"U+1E8A">>>>, <<"U+1E8D", <<"U+1E8C">>>>,
      <<"U+1E8F", <<"U+1E8E">>>>, <<"U+1E91", <<"U+1E90">>>>,
      <<"U+1E93", <<"U+1E92">>>>, <<"U+1E95", <<"U+1E94">>>>,
      <<"U+1E96", <<"H", "U+0331">>>>, <<"U+1E97", <<"T", "U+0308">>>>,
      <<"U+1E98", <<"W", "U+030A">>>>, <<"U+1E99", <<"Y", "U+030A">>>>,
      <<"U+1E9A", <<"A", "U+02BE">>>>, <<"U+1E9B", <<"U+1E60">>>>,
      <<"U+1EA1", <<"U+1EA0">>>>, <<"U+1EA3", <<"U+1EA2">>>>,
      <<"U+1EA5", <<"U+1EA4">>>>, <<"U+1EA7", <<"U+1EA6">>>>,
      <<"U+1EA9", <<"U+1EA8">>>>, <<"U+1EAB", <<"U+1EAA">>>>,
      <<"U+1EAD", <<"U+1EAC">>>>, <<"U+1EAF", <<"U+1EAE">>>>,
      <<"U+1EB1", <<"U+1EB0">>>>, <<"U+1EB3", <<"U+1EB2">>>>,
      <<"U+1EB5", <<"U+1EB4">>>>, <<"U+1EB7", <<"U+1EB6">>>>,
      <<"U+1EB9", <<"U+1EB8">>>>, <<"U+1EBB", <<"U+1EBA">>>>,
      <<"U+1EBD", <<"U+1EBC">>>>, <<"U+1EBF", <<"U+1EBE">>>>,
      <<"U+1EC1", <<"U+1EC0">>>>, <<"U+1EC3", <<"U+1EC2">>>>,
      <<"U+1EC5", <<"U+1EC4">>>>, <<"U+1EC7", <<"U+1EC6">>>>,
      <<"U+1EC9", <<"U+1EC8">>>>, <<"U+1ECB", <<"U+1ECA">>>>,
      <<"U+1ECD", <<"U+1ECC">>>>, <<"U+1ECF", <<"U+1ECE">>>>,
      <<"U+1ED1", <<"U+1ED0">>>>, <<"U+1ED3", <<"U+1ED2">>>>,
      <<"U+1ED5", <<"U+1ED4">>>>, <<"U+1ED7", <<"U+1ED6">>>>,
      <<"U+1ED9", <<"U+1ED8">>>>, <<"U+1EDB", <<"U+1EDA">>>>,
      <<"U+1EDD", <<"U+1EDC">>>>, <<"U+1EDF", <<"U+1EDE">>>>,
      <<"U+1EE1", <<"U+1EE0">>>>, <<"U+1EE3", <<"U+1EE2">>>>,
      <<"U+1EE5", <<"U+1EE4">>>>, <<"U+1EE7", <<"U+1EE6">>>>,
      <<"U+1EE9", <<"U+1EE8">>>>, <<"U+1EEB", <<"U+1EEA">>>>,
      <<"U+1EED", <<"U+1EEC">>>>, <<"U+1EEF", <<"U+1EEE">>>>,
      <<"U+1EF1", <<"U+1EF0">>>>, <<"U+1EF3", <<"U+1EF2">>>>,
      <<"U+1EF5", <<"U+1EF4">>>>, <<"U+1EF7", <<"U+1EF6">>>>,
      <<"U+1EF9", <<"U+1EF8">>>>, <<"U+1EFB", <<"U+1EFA">>>>,
      <<"U+1EFD", <<"U+1EFC">>>>, <<"U+1EFF", <<"U+1EFE">>>>,
      <<"U+1F00", <<"U+1F08">>>>, <<"U+1F01", <<"U+1F09">>>>,
      <<"U+1F02", <<"U+1F0A">>>>, <<"U+1F03", <<"U+1F0B">>>>,
      <<"U+1F04", <<"U+1F0C">>>>, <<"U+1F05", <<"U+1F0D">>>>,
      <<"U+1F06", <<"U+1F0E">>>>, <<"U+1F07", <<"U+1F0F">>>>,
      <<"U+1F10", <<"U+1F18">>>>, <<"U+1F11", <<"U+1F19">>>>,
      <<"U+1F12", <<"U+1F1A">>>>, <<"U+1F13", <<"U+1F1B">>>>,
      <<"U+1F14", <<"U+1F1C">>>>, <<"U+1F15", <<"U+1F1D">>>>,
      <<"U+1F20", <<"U+1F28">>>>, <<"U+1F21", <<"U+1F29">>>>,
      <<"U+1F22", <<"U+1F2A">>>>, <<"U+1F23", <<"U+1F2B">>>>,
      <<"U+1F24", <<"U+1F2C">>>>, <<"U+1F25", <<"U+1F2D">>>>,
      <<"U+1F26", <<"U+1F2E">>>>, <<"U+1F27", <<"U+1F2F">>>>,
      <<"U+1F30", <<"U+1F38">>>>, <<"U+1F31", <<"U+1F39">>>>,
      <<"U+1F32", <<"U+1F3A">>>>, <<"U+1F33", <<"U+1F3B">>>>,
      <<"U+1F34", <<"U+1F3C">>>>, <<"U+1F35", <<"U+1F3D">>>>,
      <<"U+1F36", <<"U+1F3E">>>>, <<"U+1F37", <<"U+1F3F">>>>,
      <<"U+1F40", <<"U+1F48">>>>, <<"U+1F41", <<"U+1F49">>>>,
      <<"U+1F42", <<"U+1F4A">>>>, <<"U+1F43", <<"U+1F4B">>>>,
      <<"U+1F44", <<"U+1F4C">>>>, <<"U+1F45", <<"U+1F4D">>>>,
      <<"U+1F50", <<"U+03A5", "U+0313">>>>, <<"U+1F51", <<"U+1F59">>>>,
      <<"U+1F52", <<"U+03A5", "U+0313", "U+0300">>>>,
      <<"U+1F53", <<"U+1F5B">>>>,
      <<"U+1F54", <<"U+03A5", "U+0313", "U+0301">>>>,
      <<"U+1F55", <<"U+1F5D">>>>,
      <<"U+1F56", <<"U+03A5", "U+0313", "U+0342">>>>,
      <<"U+1F57", <<"U+1F5F">>>>, <<"U+1F60", <<"U+1F68">>>>,
      <<"U+1F61", <<"U+1F69">>>>, <<"U+1F62", <<"U+1F6A">>>>,
      <<"U+1F63", <<"U+1F6B">>>>, <<"U+1F64", <<"U+1F6C">>>>,
      <<"U+1F65", <<"U+1F6D">>>>, <<"U+1F66", <<"U+1F6E">>>>,
      <<"U+1F67", <<"U+1F6F">>>>, <<"U+1F70", <<"U+1FBA">>>>,
      <<"U+1F71", <<"U+1FBB">>>>, <<"U+1F72", <<"U+1FC8">>>>,
      <<"U+1F73", <<"U+1FC9">>>>, <<"U+1F74", <<"U+1FCA">>>>,
      <<"U+1F75", <<"U+1FCB">>>>, <<"U+1F76", <<"U+1FDA">>>>,
      <<"U+1F77", <<"U+1FDB">>>>, <<"U+1F78", <<"U+1FF8">>>>,
      <<"U+1F79", <<"U+1FF9">>>>, <<"U+1F7A", <<"U+1FEA">>>>,
      <<"U+1F7B", <<"U+1FEB">>>>, <<"U+1F7C", <<"U+1FFA">>>>,
      <<"U+1F7D", <<"U+1FFB">>>>, <<"U+1F80", <<"U+1F08", "U+0399">>>>,
      <<"U+1F81", <<"U+1F09", "U+0399">>>>,
      <<"U+1F82", <<"U+1F0A", "U+0399">>>>,
      <<"U+1F83", <<"U+1F0B", "U+0399">>>>,
      <<"U+1F84", <<"U+1F0C", "U+0399">>>>,
      <<"U+1F85", <<"U+1F0D", "U+0399">>>>,
      <<"U+1F86", <<"U+1F0E", "U+0399">>>>,
      <<"U+1F87", <<"U+1F0F", "U+0399">>>>,
      <<"U+1F88", <<"U+1F08", "U+0399">>>>,
      <<"U+1F89", <<"U+1F09", "U+0399">>>>,
      <<"U+1F8A", <<"U+1F0A", "U+0399">>>>,
      <<"U+1F8B", <<"U+1F0B", "U+0399">>>>,
      <<"U+1F8C", <<"U+1F0C", "U+0399">>>>,
      <<"U+1F8D", <<"U+1F0D", "U+0399">>>>,
      <<"U+1F8E", <<"U+1F0E", "U+0399">>>>,
      <<"U+1F8F", <<"U+1F0F", "U+0399">>>>,
      <<"U+1F90", <<"U+1F28", "U+0399">>>>,
      <<"U+1F91", <<"U+1F29", "U+0399">>>>,
      <<"U+1F92", <<"U+1F2A", "U+0399">>>>,
      <<"U+1F93", <<"U+1F2B", "U+0399">>>>,
      <<"U+1F94", <<"U+1F2C", "U+0399">>>>,
      <<"U+1F95", <<"U+1F2D", "U+0399">>>>,
      <<"U+1F96", <<"U+1F2E", "U+0399">>>>,
      <<"U+1F97", <<"U+1F2F", "U+0399">>>>,
      <<"U+1F98", <<"U+1F28", "U+0399">>>>,
      <<"U+1F99", <<"U+1F29", "U+0399">>>>,
      <<"U+1F9A", <<"U+1F2A", "U+0399">>>>,
      <<"U+1F9B", <<"U+1F2B", "U+0399">>>>,
      <<"U+1F9C", <<"U+1F2C", "U+0399">>>>,
      <<"U+1F9D", <<"U+1F2D", "U+0399">>>>,
      <<"U+1F9E", <<"U+1F2E", "U+0399">>>>,
      <<"U+1F9F", <<"U+1F2F", "U+0399">>>>,
      <<"U+1FA0", <<"U+1F68", "U+0399">>>>,
      <<"U+1FA1", <<"U+1F69", "U+0399">>>>,
      <<"U+1FA2", <<"U+1F6A", "U+0399">>>>,
      <<"U+1FA3", <<"U+1F6B", "U+0399">>>>,
      <<"U+1FA4", <<"U+1F6C", "U+0399">>>>,
      <<"U+1FA5", <<"U+1F6D", "U+0399">>>>,
      <<"U+1FA6", <<"U+1F6E", "U+0399">>>>,
      <<"U+1FA7", <<"U+1F6F", "U+0399">>>>,
      <<"U+1FA8", <<"U+1F68", "U+0399">>>>,
      <<"U+1FA9", <<"U+1F69", "U+0399">>>>,
      <<"U+1FAA", <<"U+1F6A", "U+0399">>>>,
      <<"U+1FAB", <<"U+1F6B", "U+0399">>>>,
      <<"U+1FAC", <<"U+1F6C", "U+0399">>>>,
      <<"U+1FAD", <<"U+1F6D", "U+0399">>>>,
      <<"U+1FAE", <<"U+1F6E", "U+0399">>>>,
      <<"U+1FAF", <<"U+1F6F", "U+0399">>>>, <<"U+1FB0", <<"U+1FB8">>>>,
      <<"U+1FB1", <<"U+1FB9">>>>, <<"U+1FB2", <<"U+1FBA", "U+0399">>>>,
      <<"U+1FB3", <<"U+0391", "U+0399">>>>,
      <<"U+1FB4", <<"U+0386", "U+0399">>>>,
      <<"U+1FB6", <<"U+0391", "U+0342">>>>,
      <<"U+1FB7", <<"U+0391", "U+0342", "U+0399">>>>,
      <<"U+1FBC", <<"U+0391", "U+0399">>>>, <<"U+1FBE", <<"U+0399">>>>,
      <<"U+1FC2", <<"U+1FCA", "U+0399">>>>,
      <<"U+1FC3", <<"U+0397", "U+0399">>>>,
      <<"U+1FC4", <<"U+0389", "U+0399">>>>,
      <<"U+1FC6", <<"U+0397", "U+0342">>>>,
      <<"U+1FC7", <<"U+0397", "U+0342", "U+0399">>>>,
      <<"U+1FCC", <<"U+0397", "U+0399">>>>, <<"U+1FD0", <<"U+1FD8">>>>,
      <<"U+1FD1", <<"U+1FD9">>>>,
      <<"U+1FD2", <<"U+0399", "U+0308", "U+0300">>>>,
      <<"U+1FD3", <<"U+0399", "U+0308", "U+0301">>>>,
      <<"U+1FD6", <<"U+0399", "U+0342">>>>,
      <<"U+1FD7", <<"U+0399", "U+0308", "U+0342">>>>,
      <<"U+1FE0", <<"U+1FE8">>>>, <<"U+1FE1", <<"U+1FE9">>>>,
      <<"U+1FE2", <<"U+03A5", "U+0308", "U+0300">>>>,
      <<"U+1FE3", <<"U+03A5", "U+0308", "U+0301">>>>,
      <<"U+1FE4", <<"U+03A1", "U+0313">>>>, <<"U+1FE5", <<"U+1FEC">>>>,
      <<"U+1FE6", <<"U+03A5", "U+0342">>>>,
      <<"U+1FE7", <<"U+03A5", "U+0308", "U+0342">>>>,
      <<"U+1FF2", <<"U+1FFA", "U+0399">>>>,
      <<"U+1FF3", <<"U+03A9", "U+0399">>>>,
      <<"U+1FF4", <<"U+038F", "U+0399">>>>,
      <<"U+1FF6", <<"U+03A9", "U+0342">>>>,
      <<"U+1FF7", <<"U+03A9", "U+0342", "U+0399">>>>,
      <<"U+1FFC", <<"U+03A9", "U+0399">>>>, <<"U+214E", <<"U+2132">>>>,
      <<"U+2170", <<"U+2160">>>>, <<"U+2171", <<"U+2161">>>>,
      <<"U+2172", <<"U+2162">>>>, <<"U+2173", <<"U+2163">>>>,
      <<"U+2174", <<"U+2164">>>>, <<"U+2175", <<"U+2165">>>>,
      <<"U+2176", <<"U+2166">>>>, <<"U+2177", <<"U+2167">>>>,
      <<"U+2178", <<"U+2168">>>>, <<"U+2179", <<"U+2169">>>>,
      <<"U+217A", <<"U+216A">>>>, <<"U+217B", <<"U+216B">>>>,
      <<"U+217C", <<"U+216C">>>>, <<"U+217D", <<"U+216D">>>>,
      <<"U+217E", <<"U+216E">>>>, <<"U+217F", <<"U+216F">>>>,
      <<"U+2184", <<"U+2183">>>>, <<"U+24D0", <<"U+24B6">>>>,
      <<"U+24D1", <<"U+24B7">>>>, <<"U+24D2", <<"U+24B8">>>>,
      <<"U+24D3", <<"U+24B9">>>>, <<"U+24D4", <<"U+24BA">>>>,
      <<"U+24D5", <<"U+24BB">>>>, <<"U+24D6", <<"U+24BC">>>>,
      <<"U+24D7", <<"U+24BD">>>>, <<"U+24D8", <<"U+24BE">>>>,
      <<"U+24D9", <<"U+24BF">>>>, <<"U+24DA", <<"U+24C0">>>>,
      <<"U+24DB", <<"U+24C1">>>>, <<"U+24DC", <<"U+24C2">>>>,
      <<"U+24DD", <<"U+24C3">>>>, <<"U+24DE", <<"U+24C4">>>>,
      <<"U+24DF", <<"U+24C5">>>>, <<"U+24E0", <<"U+24C6">>>>,
      <<"U+24E1", <<"U+24C7">>>>, <<"U+24E2", <<"U+24C8">>>>,
      <<"U+24E3", <<"U+24C9">>>>, <<"U+24E4", <<"U+24CA">>>>,
      <<"U+24E5", <<"U+24CB">>>>, <<"U+24E6", <<"U+24CC">>>>,
      <<"U+24E7", <<"U+24CD">>>>, <<"U+24E8", <<"U+24CE">>>>,
      <<"U+24E9", <<"U+24CF">>>>, <<"U+2C30", <<"U+2C00">>>>,
      <<"U+2C31", <<"U+2C01">>>>, <<"U+2C32", <<"U+2C02">>>>,
      <<"U+2C33", <<"U+2C03">>>>, <<"U+2C34", <<"U+2C04">>>>,
      <<"U+2C35", <<"U+2C05">>>>, <<"U+2C36", <<"U+2C06">>>>,
      <<"U+2C37", <<"U+2C07">>>>, <<"U+2C38", <<"U+2C08">>>>,
      <<"U+2C39", <<"U+2C09">>>>, <<"U+2C3A", <<"U+2C0A">>>>,
      <<"U+2C3B", <<"U+2C0B">>>>, <<"U+2C3C", <<"U+2C0C">>>>,
      <<"U+2C3D", <<"U+2C0D">>>>, <<"U+2C3E", <<"U+2C0E">>>>,
      <<"U+2C3F", <<"U+2C0F">>>>, <<"U+2C40", <<"U+2C10">>>>,
      <<"U+2C41", <<"U+2C11">>>>, <<"U+2C42", <<"U+2C12">>>>,
      <<"U+2C43", <<"U+2C13">>>>, <<"U+2C44", <<"U+2C14">>>>,
      <<"U+2C45", <<"U+2C15">>>>, <<"U+2C46", <<"U+2C16">>>>,
      <<"U+2C47", <<"U+2C17">>>>, <<"U+2C48", <<"U+2C18">>>>,
      <<"U+2C49", <<"U+2C19">>>>, <<"U+2C4A", <<"U+2C1A">>>>,
      <<"U+2C4B", <<"U+2C1B">>>>, <<"U+2C4C", <<"U+2C1C">>>>,
      <<"U+2C4D", <<"U+2C1D">>>>, <<"U+2C4E", <<"U+2C1E">>>>,
      <<"U+2C4F", <<"U+2C1F">>>>, <<"U+2C50", <<"U+2C20">>>>,
      <<"U+2C51", <<"U+2C21">>>>, <<"U+2C52", <<"U+2C22">>>>,
      <<"U+2C53", <<"U+2C23">>>>, <<"U+2C54", <<"U+2C24">>>>,
      <<"U+2C55", <<"U+2C25">>>>, <<"U+2C56", <<"U+2C26">>>>,
      <<"U+2C57", <<"U+2C27">>>>, <<"U+2C58", <<"U+2C28">>>>,
      <<"U+2C59", <<"U+2C29">>>>, <<"U+2C5A", <<"U+2C2A">>>>,
      <<"U+2C5B", <<"U+2C2B">>>>, <<"U+2C5C", <<"U+2C2C">>>>,
      <<"U+2C5D", <<"U+2C2D">>>>, <<"U+2C5E", <<"U+2C2E">>>>,
      <<"U+2C5F", <<"U+2C2F">>>>, <<"U+2C61", <<"U+2C60">>>>,
      <<"U+2C65", <<"U+023A">>>>, <<"U+2C66", <<"U+023E">>>>,
      <<"U+2C68", <<"U+2C67">>>>, <<"U+2C6A", <<"U+2C69">>>>,
      <<"U+2C6C", <<"U+2C6B">>>>, <<"U+2C73", <<"U+2C72">>>>,
      <<"U+2C76", <<"U+2C75">>>>, <<"U+2C81", <<"U+2C80">>>>,
      <<"U+2C83", <<"U+2C82">>>>, <<"U+2C85", <<"U+2C84">>>>,
      <<"U+2C87", <<"U+2C86">>>>, <<"U+2C89", <<"U+2C88">>>>,
      <<"U+2C8B", <<"U+2C8A">>>>, <<"U+2C8D", <<"U+2C8C">>>>,
      <<"U+2C8F", <<"U+2C8E">>>>, <<"U+2C91", <<"U+2C90">>>>,
      <<"U+2C93", <<"U+2C92">>>>, <<"U+2C95", <<"U+2C94">>>>,
      <<"U+2C97", <<"U+2C96">>>>, <<"U+2C99", <<"U+2C98">>>>,
      <<"U+2C9B", <<"U+2C9A">>>>, <<"U+2C9D", <<"U+2C9C">>>>,
      <<"U+2C9F", <<"U+2C9E">>>>, <<"U+2CA1", <<"U+2CA0">>>>,
      <<"U+2CA3", <<"U+2CA2">>>>, <<"U+2CA5", <<"U+2CA4">>>>,
      <<"U+2CA7", <<"U+2CA6">>>>, <<"U+2CA9", <<"U+2CA8">>>>,
      <<"U+2CAB", <<"U+2CAA">>>>, <<"U+2CAD", <<"U+2CAC">>>>,
      <<"U+2CAF", <<"U+2CAE">>>>, <<"U+2CB1", <<"U+2CB0">>>>,
      <<"U+2CB3", <<"U+2CB2">>>>, <<"U+2CB5", <<"U+2CB4">>>>,
      <<"U+2CB7", <<"U+2CB6">>>>, <<"U+2CB9", <<"U+2CB8">>>>,
      <<"U+2CBB", <<"U+2CBA">>>>, <<"U+2CBD", <<"U+2CBC">>>>,
      <<"U+2CBF", <<"U+2CBE">>>>, <<"U+2CC1", <<"U+2CC0">>>>,
      <<"U+2CC3", <<"U+2CC2">>>>, <<"U+2CC5", <<"U+2CC4">>>>,
      <<"U+2CC7", <<"U+2CC6">>>>, <<"U+2CC9", <<"U+2CC8">>>>,
      <<"U+2CCB", <<"U+2CCA">>>>, <<"U+2CCD", <<"U+2CCC">>>>,
      <<"U+2CCF", <<"U+2CCE">>>>, <<"U+2CD1", <<"U+2CD0">>>>,
      <<"U+2CD3", <<"U+2CD2">>>>, <<"U+2CD5", <<"U+2CD4">>>>,
      <<"U+2CD7", <<"U+2CD6">>>>, <<"U+2CD9", <<"U+2CD8">>>>,
      <<"U+2CDB", <<"U+2CDA">>>>, <<"U+2CDD", <<"U+2CDC">>>>,
      <<"U+2CDF", <<"U+2CDE">>>>, <<"U+2CE1", <<"U+2CE0">>>>,
      <<"U+2CE3", <<"U+2CE2">>>>, <<"U+2CEC", <<"U+2CEB">>>>,
      <<"U+2CEE", <<"U+2CED">>>>, <<"U+2CF3", <<"U+2CF2">>>>,
      <<"U+2D00", <<"U+10A0">>>>, <<"U+2D01", <<"U+10A1">>>>,
      <<"U+2D02", <<"U+10A2">>>>, <<"U+2D03", <<"U+10A3">>>>,
      <<"U+2D04", <<"U+10A4">>>>, <<"U+2D05", <<"U+10A5">>>>,
      <<"U+2D06", <<"U+10A6">>>>, <<"U+2D07", <<"U+10A7">>>>,
      <<"U+2D08", <<"U+10A8">>>>, <<"U+2D09", <<"U+10A9">>>>,
      <<"U+2D0A", <<"U+10AA">>>>, <<"U+2D0B", <<"U+10AB">>>>,
      <<"U+2D0C", <<"U+10AC">>>>, <<"U+2D0D", <<"U+10AD">>>>,
      <<"U+2D0E", <<"U+10AE">>>>, <<"U+2D0F", <<"U+10AF">>>>,
      <<"U+2D10", <<"U+10B0">>>>, <<"U+2D11", <<"U+10B1">>>>,
      <<"U+2D12", <<"U+10B2">>>>, <<"U+2D13", <<"U+10B3">>>>,
      <<"U+2D14", <<"U+10B4">>>>, <<"U+2D15", <<"U+10B5">>>>,
      <<"U+2D16", <<"U+10B6">>>>, <<"U+2D17", <<"U+10B7">>>>,
      <<"U+2D18", <<"U+10B8">>>>, <<"U+2D19", <<"U+10B9">>>>,
      <<"U+2D1A", <<"U+10BA">>>>, <<"U+2D1B", <<"U+10BB">>>>,
      <<"U+2D1C", <<"U+10BC">>>>, <<"U+2D1D", <<"U+10BD">>>>,
      <<"U+2D1E", <<"U+10BE">>>>, <<"U+2D1F", <<"U+10BF">>>>,
      <<"U+2D20", <<"U+10C0">>>>, <<"U+2D21", <<"U+10C1">>>>,
      <<"U+2D22", <<"U+10C2">>>>, <<"U+2D23", <<"U+10C3">>>>,
      <<"U+2D24", <<"U+10C4">>>>, <<"U+2D25", <<"U+10C5">>>>,
      <<"U+2D27", <<"U+10C7">>>>, <<"U+2D2D", <<"U+10CD">>>>,
      <<"U+A641", <<"U+A640">>>>, <<"U+A643", <<"U+A642">>>>,
      <<"U+A645", <<"U+A644">>>>, <<"U+A647", <<"U+A646">>>>,
      <<"U+A649", <<"U+A648">>>>, <<"U+A64B", <<"U+A64A">>>>,
      <<"U+A64D", <<"U+A64C">>>>, <<"U+A64F", <<"U+A64E">>>>,
      <<"U+A651", <<"U+A650">>>>, <<"U+A653", <<"U+A652">>>>,
      <<"U+A655", <<"U+A654">>>>, <<"U+A657", <<"U+A656">>>>,
      <<"U+A659", <<"U+A658">>>>, <<"U+A65B", <<"U+A65A">>>>,
      <<"U+A65D", <<"U+A65C">>>>, <<"U+A65F", <<"U+A65E">>>>,
      <<"U+A661", <<"U+A660">>>>, <<"U+A663", <<"U+A662">>>>,
      <<"U+A665", <<"U+A664">>>>, <<"U+A667", <<"U+A666">>>>,
      <<"U+A669", <<"U+A668">>>>, <<"U+A66B", <<"U+A66A">>>>,
      <<"U+A66D", <<"U+A66C">>>>, <<"U+A681", <<"U+A680">>>>,
      <<"U+A683", <<"U+A682">>>>, <<"U+A685", <<"U+A684">>>>,
      <<"U+A687", <<"U+A686">>>>, <<"U+A689", <<"U+A688">>>>,
      <<"U+A68B", <<"U+A68A">>>>, <<"U+A68D", <<"U+A68C">>>>,
      <<"U+A68F", <<"U+A68E">>>>, <<"U+A691", <<"U+A690">>>>,
      <<"U+A693", <<"U+A692">>>>, <<"U+A695", <<"U+A694">>>>,
      <<"U+A697", <<"U+A696">>>>, <<"U+A699", <<"U+A698">>>>,
      <<"U+A69B", <<"U+A69A">>>>, <<"U+A723", <<"U+A722">>>>,
      <<"U+A725", <<"U+A724">>>>, <<"U+A727", <<"U+A726">>>>,
      <<"U+A729", <<"U+A728">>>>, <<"U+A72B", <<"U+A72A">>>>,
      <<"U+A72D", <<"U+A72C">>>>, <<"U+A72F", <<"U+A72E">>>>,
      <<"U+A733", <<"U+A732">>>>, <<"U+A735", <<"U+A734">>>>,
      <<"U+A737", <<"U+A736">>>>, <<"U+A739", <<"U+A738">>>>,
      <<"U+A73B", <<"U+A73A">>>>, <<"U+A73D", <<"U+A73C">>>>,
      <<"U+A73F", <<"U+A73E">>>>, <<"U+A741", <<"U+A740">>>>,
      <<"U+A743", <<"U+A742">>>>, <<"U+A745", <<"U+A744">>>>,
      <<"U+A747", <<"U+A746">>>>, <<"U+A749", <<"U+A748">>>>,
      <<"U+A74B", <<"U+A74A">>>>, <<"U+A74D", <<"U+A74C">>>>,
      <<"U+A74F", <<"U+A74E">>>>, <<"U+A751", <<"U+A750">>>>,
      <<"U+A753", <<"U+A752">>>>, <<"U+A755", <<"U+A754">>>>,
      <<"U+A757", <<"U+A756">>>>, <<"U+A759", <<"U+A758">>>>,
      <<"U+A75B", <<"U+A75A">>>>, <<"U+A75D", <<"U+A75C">>>>,
      <<"U+A75F", <<"U+A75E">>>>, <<"U+A761", <<"U+A760">>>>,
      <<"U+A763", <<"U+A762">>>>, <<"U+A765", <<"U+A764">>>>,
      <<"U+A767", <<"U+A766">>>>, <<"U+A769", <<"U+A768">>>>,
      <<"U+A76B", <<"U+A76A">>>>, <<"U+A76D", <<"U+A76C">>>>,
      <<"U+A76F", <<"U+A76E">>>>, <<"U+A77A", <<"U+A779">>>>,
      <<"U+A77C", <<"U+A77B">>>>, <<"U+A77F", <<"U+A77E">>>>,
      <<"U+A781", <<"U+A780">>>>, <<"U+A783", <<"U+A782">>>>,
      <<"U+A785", <<"U+A784">>>>, <<"U+A787", <<"U+A786">>>>,
      <<"U+A78C", <<"U+A78B">>>>, <<"U+A791", <<"U+A790">>>>,
      <<"U+A793", <<"U+A792">>>>, <<"U+A794", <<"U+A7C4">>>>,
      <<"U+A797", <<"U+A796">>>>, <<"U+A799", <<"U+A798">>>>,
      <<"U+A79B", <<"U+A79A">>>>, <<"U+A79D", <<"U+A79C">>>>,
      <<"U+A79F", <<"U+A79E">>>>, <<"U+A7A1", <<"U+A7A0">>>>,
      <<"U+A7A3", <<"U+A7A2">>>>, <<"U+A7A5", <<"U+A7A4">>>>,
      <<"U+A7A7", <<"U+A7A6">>>>, <<"U+A7A9", <<"U+A7A8">>>>,
      <<"U+A7B5", <<"U+A7B4">>>>, <<"U+A7B7", <<"U+A7B6">>>>,
      <<"U+A7B9", <<"U+A7B8">>>>, <<"U+A7BB", <<"U+A7BA">>>>,
      <<"U+A7BD", <<"U+A7BC">>>>, <<"U+A7BF", <<"U+A7BE">>>>,
      <<"U+A7C1", <<"U+A7C0">>>>, <<"U+A7C3", <<"U+A7C2">>>>,
      <<"U+A7C8", <<"U+A7C7">>>>, <<"U+A7CA", <<"U+A7C9">>>>,
      <<"U+A7D1", <<"U+A7D0">>>>, <<"U+A7D7", <<"U+A7D6">>>>,
      <<"U+A7D9", <<"U+A7D8">>>>, <<"U+A7F6", <<"U+A7F5">>>>,
      <<"U+AB53", <<"U+A7B3">>>>, <<"U+AB70", <<"U+13A0">>>>,
      <<"U+AB71", <<"U+13A1">>>>, <<"U+AB72", <<"U+13A2">>>>,
      <<"U+AB73", <<"U+13A3">>>>, <<"U+AB74", <<"U+13A4">>>>,
      <<"U+AB75", <<"U+13A5">>>>, <<"U+AB76", <<"U+13A6">>>>,
      <<"U+AB77", <<"U+13A7">>>>, <<"U+AB78", <<"U+13A8">>>>,
      <<"U+AB79", <<"U+13A9">>>>, <<"U+AB7A", <<"U+13AA">>>>,
      <<"U+AB7B", <<"U+13AB">>>>, <<"U+AB7C", <<"U+13AC">>>>,
      <<"U+AB7D", <<"U+13AD">>>>, <<"U+AB7E", <<"U+13AE">>>>,
      <<"U+AB7F", <<"U+13AF">>>>, <<"U+AB80", <<"U+13B0">>>>,
      <<"U+AB81", <<"U+13B1">>>>, <<"U+AB82", <<"U+13B2">>>>,
      <<"U+AB83", <<"U+13B3">>>>, <<"U+AB84", <<"U+13B4">>>>,
      <<"U+AB85", <<"U+13B5">>>>, <<"U+AB86", <<"U+13B6">>>>,
      <<"U+AB87", <<"U+13B7">>>>, <<"U+AB88", <<"U+13B8">>>>,
      <<"U+AB89", <<"U+13B9">>>>, <<"U+AB8A", <<"U+13BA">>>>,
      <<"U+AB8B", <<"U+13BB">>>>, <<"U+AB8C", <<"U+13BC">>>>,
      <<"U+AB8D", <<"U+13BD">>>>, <<"U+AB8E", <<"U+13BE">>>>,
      <<"U+AB8F", <<"U+13BF">>>>, <<"U+AB90", <<"U+13C0">>>>,
      <<"U+AB91", <<"U+13C1">>>>, <<"U+AB92", <<"U+13C2">>>>,
      <<"U+AB93", <<"U+13C3">>>>, <<"U+AB94", <<"U+13C4">>>>,
      <<"U+AB95", <<"U+13C5">>>>, <<"U+AB96", <<"U+13C6">>>>,
      <<"U+AB97", <<"U+13C7">>>>, <<"U+AB98", <<"U+13C8">>>>,
      <<"U+AB99", <<"U+13C9">>>>, <<"U+AB9A", <<"U+13CA">>>>,
      <<"U+AB9B", <<"U+13CB">>>>, <<"U+AB9C", <<"U+13CC">>>>,
      <<"U+AB9D", <<"U+13CD">>>>, <<"U+AB9E", <<"U+13CE">>>>,
      <<"U+AB9F", <<"U+13CF">>>>, <<"U+ABA0", <<"U+13D0">>>>,
      <<"U+ABA1", <<"U+13D1">>>>, <<"U+ABA2", <<"U+13D2">>>>,
      <<"U+ABA3", <<"U+13D3">>>>, <<"U+ABA4", <<"U+13D4">>>>,
      <<"U+ABA5", <<"U+13D5">>>>, <<"U+ABA6", <<"U+13D6">>>>,
      <<"U+ABA7", <<"U+13D7">>>>, <<"U+ABA8", <<"U+13D8">>>>,
      <<"U+ABA9", <<"U+13D9">>>>, <<"U+ABAA", <<"U+13DA">>>>,
      <<"U+ABAB", <<"U+13DB">>>>, <<"U+ABAC", <<"U+13DC">>>>,
      <<"U+ABAD", <<"U+13DD">>>>, <<"U+ABAE", <<"U+13DE">>>>,
      <<"U+ABAF", <<"U+13DF">>>>, <<"U+ABB0", <<"U+13E0">>>>,
      <<"U+ABB1", <<"U+13E1">>>>, <<"U+ABB2", <<"U+13E2">>>>,
      <<"U+ABB3", <<"U+13E3">>>>, <<"U+ABB4", <<"U+13E4">>>>,
      <<"U+ABB5", <<"U+13E5">>>>, <<"U+ABB6", <<"U+13E6">>>>,
      <<"U+ABB7", <<"U+13E7">>>>, <<"U+ABB8", <<"U+13E8">>>>,
      <<"U+ABB9", <<"U+13E9">>>>, <<"U+ABBA", <<"U+13EA">>>>,
      <<"U+ABBB", <<"U+13EB">>>>, <<"U+ABBC", <<"U+13EC">>>>,
      <<"U+ABBD", <<"U+13ED">>>>, <<"U+ABBE", <<"U+13EE">>>>,
      <<"U+ABBF", <<"U+13EF">>>>, <<"U+FB00", <<"F", "F">>>>,
      <<"U+FB01", <<"F", "I">>>>, <<"U+FB02", <<"F", "L">>>>,
      <<"U+FB03", <<"F", "F", "I">>>>, <<"U+FB04", <<"F", "F", "L">>>>,
      <<"U+FB05", <<"S", "T">>>>, <<"U+FB06", <<"S", "T">>>>,
      <<"U+FB13", <<"U+0544", "U+0546">>>>,
      <<"U+FB14", <<"U+0544", "U+0535">>>>,
      <<"U+FB15", <<"U+0544", "U+053B">>>>,
      <<"U+FB16", <<"U+054E", "U+0546">>>>,
      <<"U+FB17", <<"U+0544", "U+053D">>>>, <<"U+FF41", <<"U+FF21">>>>,
      <<"U+FF42", <<"U+FF22">>>>, <<"U+FF43", <<"U+FF23">>>>,
      <<"U+FF44", <<"U+FF24">>>>, <<"U+FF45", <<"U+FF25">>>>,
      <<"U+FF46", <<"U+FF26">>>>, <<"U+FF47", <<"U+FF27">>>>,
      <<"U+FF48", <<"U+FF28">>>>, <<"U+FF49", <<"U+FF29">>>>,
      <<"U+FF4A", <<"U+FF2A">>>>, <<"U+FF4B", <<"U+FF2B">>>>,
      <<"U+FF4C", <<"U+FF2C">>>>, <<"U+FF4D", <<"U+FF2D">>>>,
      <<"U+FF4E", <<"U+FF2E">>>>, <<"U+FF4F", <<"U+FF2F">>>>,
      <<"U+FF50", <<"U+FF30">>>>, <<"U+FF51", <<"U+FF31">>>>,
      <<"U+FF52", <<"U+FF32">>>>, <<"U+FF53", <<"U+FF33">>>>,
      <<"U+FF54", <<"U+FF34">>>>, <<"U+FF55", <<"U+FF35">>>>,
      <<"U+FF56", <<"U+FF36">>>>, <<"U+FF57", <<"U+FF37">>>>,
      <<"U+FF58", <<"U+FF38">>>>, <<"U+FF59", <<"U+FF39">>>>,
      <<"U+FF5A", <<"U+FF3A">>>>, <<"U+10428", <<"U+10400">>>>,
      <<"U+10429", <<"U+10401">>>>, <<"U+1042A", <<"U+10402">>>>,
      <<"U+1042B", <<"U+10403">>>>, <<"U+1042C", <<"U+10404">>>>,
      <<"U+1042D", <<"U+10405">>>>, <<"U+1042E", <<"U+10406">>>>,
      <<"U+1042F", <<"U+10407">>>>, <<"U+10430", <<"U+10408">>>>,
      <<"U+10431", <<"U+10409">>>>, <<"U+10432", <<"U+1040A">>>>,
      <<"U+10433", <<"U+1040B">>>>, <<"U+10434", <<"U+1040C">>>>,
      <<"U+10435", <<"U+1040D">>>>, <<"U+10436", <<"U+1040E">>>>,
      <<"U+10437", <<"U+1040F">>>>, <<"U+10438", <<"U+10410">>>>,
      <<"U+10439", <<"U+10411">>>>, <<"U+1043A", <<"U+10412">>>>,
      <<"U+1043B", <<"U+10413">>>>, <<"U+1043C", <<"U+10414">>>>,
      <<"U+1043D", <<"U+10415">>>>, <<"U+1043E", <<"U+10416">>>>,
      <<"U+1043F", <<"U+10417">>>>, <<"U+10440", <<"U+10418">>>>,
      <<"U+10441", <<"U+10419">>>>, <<"U+10442", <<"U+1041A">>>>,
      <<"U+10443", <<"U+1041B">>>>, <<"U+10444", <<"U+1041C">>>>,
      <<"U+10445", <<"U+1041D">>>>, <<"U+10446", <<"U+1041E">>>>,
      <<"U+10447", <<"U+1041F">>>>, <<"U+10448", <<"U+10420">>>>,
      <<"U+10449", <<"U+10421">>>>, <<"U+1044A", <<"U+10422">>>>,
      <<"U+1044B", <<"U+10423">>>>, <<"U+1044C", <<"U+10424">>>>,
      <<"U+1044D", <<"U+10425">>>>, <<"U+1044E", <<"U+10426">>>>,
      <<"U+1044F", <<"U+10427">>>>, <<"U+104D8", <<"U+104B0">>>>,
      <<"U+104D9", <<"U+104B1">>>>, <<"U+104DA", <<"U+104B2">>>>,
      <<"U+104DB", <<"U+104B3">>>>, <<"U+104DC", <<"U+104B4">>>>,
      <<"U+104DD", <<"U+104B5">>>>, <<"U+104DE", <<"U+104B6">>>>,
      <<"U+104DF", <<"U+104B7">>>>, <<"U+104E0", <<"U+104B8">>>>,
      <<"U+104E1", <<"U+104B9">>>>, <<"U+104E2", <<"U+104BA">>>>,
      <<"U+104E3", <<"U+104BB">>>>, <<"U+104E4", <<"U+104BC">>>>,
      <<"U+104E5", <<"U+104BD">>>>, <<"U+104E6", <<"U+104BE">>>>,
      <<"U+104E7", <<"U+104BF">>>>, <<"U+104E8", <<"U+104C0">>>>,
      <<"U+104E9", <<"U+104C1">>>>, <<"U+104EA", <<"U+104C2">>>>,
      <<"U+104EB", <<"U+104C3">>>>, <<"U+104EC", <<"U+104C4">>>>,
      <<"U+104ED", <<"U+104C5">>>>, <<"U+104EE", <<"U+104C6">>>>,
      <<"U+104EF", <<"U+104C7">>>>, <<"U+104F0", <<"U+104C8">>>>,
      <<"U+104F1", <<"U+104C9">>>>, <<"U+104F2", <<"U+104CA">>>>,
      <<"U+104F3", <<"U+104CB">>>>, <<"U+104F4", <<"U+104CC">>>>,
      <<"U+104F5", <<"U+104CD">>>>, <<"U+104F6", <<"U+104CE">>>>,
      <<"U+104F7", <<"U+104CF">>>>, <<"U+104F8", <<"U+104D0">>>>,
      <<"U+104F9", <<"U+104D1">>>>, <<"U+104FA", <<"U+104D2">>>>,
      <<"U+104FB", <<"U+104D3">>>>, <<"U+10597", <<"U+10570">>>>,
      <<"U+10598", <<"U+10571">>>>, <<"U+10599", <<"U+10572">>>>,
      <<"U+1059A", <<"U+10573">>>>, <<"U+1059B", <<"U+10574">>>>,
      <<"U+1059C", <<"U+10575">>>>, <<"U+1059D", <<"U+10576">>>>,
      <<"U+1059E", <<"U+10577">>>>, <<"U+1059F", <<"U+10578">>>>,
      <<"U+105A0", <<"U+10579">>>>, <<"U+105A1", <<"U+1057A">>>>,
      <<"U+105A3", <<"U+1057C">>>>, <<"U+105A4", <<"U+1057D">>>>,
      <<"U+105A5", <<"U+1057E">>>>, <<"U+105A6", <<"U+1057F">>>>,
      <<"U+105A7", <<"U+10580">>>>, <<"U+105A8", <<"U+10581">>>>,
      <<"U+105A9", <<"U+10582">>>>, <<"U+105AA", <<"U+10583">>>>,
      <<"U+105AB", <<"U+10584">>>>, <<"U+105AC", <<"U+10585">>>>,
      <<"U+105AD", <<"U+10586">>>>, <<"U+105AE", <<"U+10587">>>>,
      <<"U+105AF", <<"U+10588">>>>, <<"U+105B0", <<"U+10589">>>>,
      <<"U+105B1", <<"U+1058A">>>>, <<"U+105B3", <<"U+1058C">>>>,
      <<"U+105B4", <<"U+1058D">>>>, <<"U+105B5", <<"U+1058E">>>>,
      <<"U+105B6", <<"U+1058F">>>>, <<"U+105B7", <<"U+10590">>>>,
      <<"U+105B8", <<"U+10591">>>>, <<"U+105B9", <<"U+10592">>>>,
      <<"U+105BB", <<"U+10594">>>>, <<"U+105BC", <<"U+10595">>>>,
      <<"U+10CC0", <<"U+10C80">>>>, <<"U+10CC1", <<"U+10C81">>>>,
      <<"U+10CC2", <<"U+10C82">>>>, <<"U+10CC3", <<"U+10C83">>>>,
      <<"U+10CC4", <<"U+10C84">>>>, <<"U+10CC5", <<"U+10C85">>>>,
      <<"U+10CC6", <<"U+10C86">>>>, <<"U+10CC7", <<"U+10C87">>>>,
      <<"U+10CC8", <<"U+10C88">>>>, <<"U+10CC9", <<"U+10C89">>>>,
      <<"U+10CCA", <<"U+10C8A">>>>, <<"U+10CCB", <<"U+10C8B">>>>,
      <<"U+10CCC", <<"U+10C8C">>>>, <<"U+10CCD", <<"U+10C8D">>>>,
      <<"U+10CCE", <<"U+10C8E">>>>, <<"U+10CCF", <<"U+10C8F">>>>,
      <<"U+10CD0", <<"U+10C90">>>>, <<"U+10CD1", <<"U+10C91">>>>,
      <<"U+10CD2", <<"U+10C92">>>>, <<"U+10CD3", <<"U+10C93">>>>,
      <<"U+10CD4", <<"U+10C94">>>>, <<"U+10CD5", <<"U+10C95">>>>,
      <<"U+10CD6", <<"U+10C96">>>>, <<"U+10CD7", <<"U+10C97">>>>,
      <<"U+10CD8", <<"U+10C98">>>>, <<"U+10CD9", <<"U+10C99">>>>,
      <<"U+10CDA", <<"U+10C9A">>>>, <<"U+10CDB", <<"U+10C9B">>>>,
      <<"U+10CDC", <<"U+10C9C">>>>, <<"U+10CDD", <<"U+10C9D">>>>,
      <<"U+10CDE", <<"U+10C9E">>>>, <<"U+10CDF", <<"U+10C9F">>>>,
      <<"U+10CE0", <<"U+10CA0">>>>, <<"U+10CE1", <<"U+10CA1">>>>,
      <<"U+10CE2", <<"U+10CA2">>>>, <<"U+10CE3", <<"U+10CA3">>>>,
      <<"U+10CE4", <<"U+10CA4">>>>, <<"U+10CE5", <<"U+10CA5">>>>,
      <<"U+10CE6", <<"U+10CA6">>>>, <<"U+10CE7", <<"U+10CA7">>>>,
      <<"U+10CE8", <<"U+10CA8">>>>, <<"U+10CE9", <<"U+10CA9">>>>,
      <<"U+10CEA", <<"U+10CAA">>>>, <<"U+10CEB", <<"U+10CAB">>>>,
      <<"U+10CEC", <<"U+10CAC">>>>, <<"U+10CED", <<"U+10CAD">>>>,
      <<"U+10CEE", <<"U+10CAE">>>>, <<"U+10CEF", <<"U+10CAF">>>>,
      <<"U+10CF0", <<"U+10CB0">>>>, <<"U+10CF1", <<"U+10CB1">>>>,
      <<"U+10CF2", <<"U+10CB2">>>>, <<"U+118C0", <<"U+118A0">>>>,
      <<"U+118C1", <<"U+118A1">>>>, <<"U+118C2", <<"U+118A2">>>>,
      <<"U+118C3", <<"U+118A3">>>>, <<"U+118C4", <<"U+118A4">>>>,
      <<"U+118C5", <<"U+118A5">>>>, <<"U+118C6", <<"U+118A6">>>>,
      <<"U+118C7", <<"U+118A7">>>>, <<"U+118C8", <<"U+118A8">>>>,
      <<"U+118C9", <<"U+118A9">>>>, <<"U+118CA", <<"U+118AA">>>>,
      <<"U+118CB", <<"U+118AB">>>>, <<"U+118CC", <<"U+118AC">>>>,
      <<"U+118CD", <<"U+118AD">>>>, <<"U+118CE", <<"U+118AE">>>>,
      <<"U+118CF", <<"U+118AF">>>>, <<"U+118D0", <<"U+118B0">>>>,
      <<"U+118D1", <<"U+118B1">>>>, <<"U+118D2", <<"U+118B2">>>>,
      <<"U+118D3", <<"U+118B3">>>>, <<"U+118D4", <<"U+118B4">>>>,
      <<"U+118D5", <<"U+118B5">>>>, <<"U+118D6", <<"U+118B6">>>>,
      <<"U+118D7", <<"U+118B7">>>>, <<"U+118D8", <<"U+118B8">>>>,
      <<"U+118D9", <<"U+118B9">>>>, <<"U+118DA", <<"U+118BA">>>>,
      <<"U+118DB", <<"U+118BB">>>>, <<"U+118DC", <<"U+118BC">>>>,
      <<"U+118DD", <<"U+118BD">>>>, <<"U+118DE", <<"U+118BE">>>>,
      <<"U+118DF", <<"U+118BF">>>>, <<"U+16E60", <<"U+16E40">>>>,
      <<"U+16E61", <<"U+16E41">>>>, <<"U+16E62", <<"U+16E42">>>>,
      <<"U+16E63", <<"U+16E43">>>>, <<"U+16E64", <<"U+16E44">>>>,
      <<"U+16E65", <<"U+16E45">>>>, <<"U+16E66", <<"U+16E46">>>>,
      <<"U+16E67", <<"U+16E47">>>>, <<"U+16E68", <<"U+16E48">>>>,
      <<"U+16E69", <<"U+16E49">>>>, <<"U+16E6A", <<"U+16E4A">>>>,
      <<"U+16E6B", <<"U+16E4B">>>>, <<"U+16E6C", <<"U+16E4C">>>>,
      <<"U+16E6D", <<"U+16E4D">>>>, <<"U+16E6E", <<"U+16E4E">>>>,
      <<"U+16E6F", <<"U+16E4F">>>>, <<"U+16E70", <<"U+16E50">>>>,
      <<"U+16E71", <<"U+16E51">>>>, <<"U+16E72", <<"U+16E52">>>>,
      <<"U+16E73", <<"U+16E53">>>>, <<"U+16E74", <<"U+16E54">>>>,
      <<"U+16E75", <<"U+16E55">>>>, <<"U+16E76", <<"U+16E56">>>>,
      <<"U+16E77", <<"U+16E57">>>>, <<"U+16E78", <<"U+16E58">>>>,
      <<"U+16E79", <<"U+16E59">>>>, <<"U+16E7A", <<"U+16E5A">>>>,
      <<"U+16E7B", <<"U+16E5B">>>>, <<"U+16E7C", <<"U+16E5C">>>>,
      <<"U+16E7D", <<"U+16E5D">>>>, <<"U+16E7E", <<"U+16E5E">>>>,
      <<"U+16E7F", <<"U+16E5F">>>>, <<"U+1E922", <<"U+1E900">>>>,
      <<"U+1E923", <<"U+1E901">>>>, <<"U+1E924", <<"U+1E902">>>>,
      <<"U+1E925", <<"U+1E903">>>>, <<"U+1E926", <<"U+1E904">>>>,
      <<"U+1E927", <<"U+1E905">>>>, <<"U+1E928", <<"U+1E906">>>>,
      <<"U+1E929", <<"U+1E907">>>>, <<"U+1E92A", <<"U+1E908">>>>,
      <<"U+1E92B", <<"U+1E909">>>>, <<"U+1E92C", <<"U+1E90A">>>>,
      <<"U+1E92D", <<"U+1E90B">>>>, <<"U+1E92E", <<"U+1E90C">>>>,
      <<"U+1E92F", <<"U+1E90D">>>>, <<"U+1E930", <<"U+1E90E">>>>,
      <<"U+1E931", <<"U+1E90F">>>>, <<"U+1E932", <<"U+1E910">>>>,
      <<"U+1E933", <<"U+1E911">>>>, <<"U+1E934", <<"U+1E912">>>>,
      <<"U+1E935", <<"U+1E913">>>>, <<"U+1E936", <<"U+1E914">>>>,
      <<"U+1E937", <<"U+1E915">>>>, <<"U+1E938", <<"U+1E916">>>>,
      <<"U+1E939", <<"U+1E917">>>>, <<"U+1E93A", <<"U+1E918">>>>,
      <<"U+1E93B", <<"U+1E919">>>>, <<"U+1E93C", <<"U+1E91A">>>>,
      <<"U+1E93D", <<"U+1E91B">>>>, <<"U+1E93E", <<"U+1E91C">>>>,
      <<"U+1E93F", <<"U+1E91D">>>>, <<"U+1E940", <<"U+1E91E">>>>,
      <<"U+1E941", <<"U+1E91F">>>>, <<"U+1E942", <<"U+1E920">>>>,
      <<"U+1E943", <<"U+1E921">>>>>>

\* the characters of UpperPairs
UpperChanged == {UpperPairs[k][1] : k \in 1..Len(UpperPairs)}

\* c.upper() for one character: one character or more
UpperOf(c) ==
    IF \E k \in 1..26 : LowerChars[k] = c
    THEN <<UpperChars[CHOOSE k \in 1..26 : LowerChars[k] = c]>>
    ELSE IF c \in UpperChanged
    THEN UpperPairs[CHOOSE k \in 1..Len(UpperPairs) : UpperPairs[k][1] = c][2]
    ELSE <<c>>

\* str.upper()
RECURSIVE Upper(_)
Upper(s) ==
    IF Len(s) = 0 THEN <<>>
    ELSE IF Len(s) = 1 THEN UpperOf(s[1])
    ELSE Upper(SubSeq(s, 1, Len(s) \div 2))
            \o Upper(SubSeq(s, (Len(s) \div 2) + 1, Len(s)))

\* the character class [\s*|-]
IsTicketSep(c) == c \in WhiteSpace \/ c \in {"*", "|", "-"}

\* whether r'DM[\s*|-](\d+)' matches at position i of s
TicketAt(s, i) ==
    /\ i + 3 <= Len(s)
    /\ s[i] = "D"
    /\ s[i + 1] = "M"
    /\ IsTicketSep(s[i + 2])
    /\ IsDigit(s[i + 3])

\* line 215: int(match[1]) on the digits of the match; the ValueError of
\* int() is not caught
TicketOf(digits) ==
    [raises |-> ~IntParse(digits).ok,
     ticket |-> IF IntParse(digits).ok THEN <<IntParse(digits).val>> ELSE <<>>]

\* the match found first: the leftmost one, with its digits
FirstTicket(s, hits) ==
    IF hits = {} THEN [raises |-> FALSE, ticket |-> <<>>]
    ELSE TicketOf(SubSeq(s, (CHOOSE j \in hits : \A k \in hits : j <= k) + 3,
                         DigitRunEnd(s, (CHOOSE j \in hits : \A k \in hits : j <= k) + 3) - 1))

TicketIn(s) == FirstTicket(s, {i \in 1..Len(s) : TicketAt(s, i)})

\* _ticket_number: whether it raises ValueError, and the ticket it returns
\* otherwise: <<>> is None, <<n>> the ticket number
ticket_number(title) == TicketIn(Upper(title))

Least(S) == CHOOSE x \in S : \A y \in S : x <= y

\* the keys of a SortedDict of time stamps, in iteration order
RECURSIVE SortedKeys(_)
SortedKeys(S) ==
    IF S = {} THEN <<>> ELSE <<Least(S)>> \o SortedKeys(S \ {Least(S)})

\* repo_result[repo][rtag] = value on a SortedDict keyed by Tag: an equal
\* key keeps the key object it has and takes the new value
RECURSIVE SortedPutTag(_, _, _)
SortedPutTag(seq, e, rtag) ==
    IF Len(seq) = 0 THEN <<e>>
    ELSE IF TagEq(Tag(seq[1].name), rtag)
         THEN <<[e EXCEPT !.name = seq[1].name]>> \o Tail(seq)
    ELSE IF TagLt(rtag, Tag(seq[1].name)) THEN <<e>> \o seq
    ELSE <<seq[1]>> \o SortedPutTag(Tail(seq), e, rtag)

SortedPut(seq, e) == SortedPutTag(seq, e, Tag(e.name))

\* line 181: rtag.is_valid() and matches_release(rtag, release)
KeepTag(rtag, rel) == is_valid(rtag) /\ matches_release(rtag, rel)

\* lines 183-186
TagDateOf(target) ==
    IF "tagger" \in DOMAIN target THEN target.tagger ELSE target.committedDate

\* lines 187-191
LastCommitOf(target) ==
    IF "target" \in DOMAIN target THEN target.target ELSE TagDateOf(target)

\* lines 182-193: the dates of one tag of the cache
TagDates(raw) ==
    [name |-> raw.name, tag_date |-> TagDateOf(raw.target),
     last_commit |-> LastCommitOf(raw.target)]

\* lines 178-193: the loop over cache['tags'][repo]
RECURSIVE RepoTags(_, _, _)
RepoTags(raws, i, rel) ==
    IF i = 0 THEN <<>>
    ELSE IF KeepTag(Tag(raws[i].name), rel)
         THEN SortedPut(RepoTags(raws, i - 1, rel), TagDates(raws[i]))
         ELSE RepoTags(raws, i - 1, rel)

\* line 186: a kept tag whose target has neither 'tagger' nor
\* 'committedDate' raises KeyError
TagsRaise(raws, rel) ==
    \E i \in 1..Len(raws) :
        /\ KeepTag(Tag(raws[i].name), rel)
        /\ "tagger" \notin DOMAIN raws[i].target
        /\ "committedDate" \notin DOMAIN raws[i].target

\* get_package_repos, lines 171-195, on the cache: result['pulls'] and
\* result['branches'] are the objects of the cache
get_package_repos(cache, rel) ==
    IF \E repo \in DOMAIN cache.tags : TagsRaise(cache.tags[repo], rel)
    THEN [raises |-> TRUE, repos |-> <<>>]
    ELSE [raises |-> FALSE,
          repos |-> [tags |-> [repo \in DOMAIN cache.tags |->
                                  RepoTags(cache.tags[repo], Len(cache.tags[repo]), rel)],
                     pulls |-> cache.pulls,
                     branches |-> cache.branches]]

TwoDigits(n) == StrOf(n \div 10) \o StrOf(n % 10)

\* the mergedAt string of second t of an hour, as GitHub writes it
IsoOf(t) ==
    <<"2", "0", "2", "3", "-", "0", "1", "-", "0", "1", "T", "1", "2", ":">>
        \o TwoDigits(t \div 60) \o <<":">> \o TwoDigits(t % 60) \o <<"Z">>

\* pulls[repo] and branches[repo] are a str where _fetch made them (line
\* 101 unpacks the keys of the pull requests: two mergedAt strings); given
\* to get_merged_tickets by its caller, pulls[repo] is a dict of the
\* branches and branches[repo] a list of branch names
StrValue(t) == [str |-> <<t>>, items |-> <<>>]
ItemsValue(x) == [str |-> <<>>, items |-> x]
IsStr(v) == v.str # <<>>

\* `p in s` on two str
IsSubstring(p, s) ==
    \E i \in 0..(Len(s) - Len(p)) : SubSeq(s, i + 1, i + Len(p)) = p

\* `key in v` (lines 269, 289): a substring test on a str, a key test on
\* a dict
Contains(v, key) ==
    IF IsStr(v) THEN IsSubstring(key, IsoOf(v.str[1])) ELSE key \in DOMAIN v.items

\* `for b in branch_list` (line 240): the characters of a str, the
\* elements of a list
BranchItems(v) ==
    IF IsStr(v) THEN {<<IsoOf(v.str[1])[i]>> : i \in 1..Len(IsoOf(v.str[1]))}
    ELSE {v.items[i] : i \in 1..Len(v.items)}

\* lines 237-242: the branches of all repos
KnownBranches(rp) ==
    UNION {BranchItems(rp.branches[pkg]) : pkg \in DOMAIN rp.branches}

\* The characters of ASCII in the order of their code points
AsciiChars ==
    <<
      "U+0000", "U+0001", "U+0002", "U+0003", "U+0004", "U+0005", "U+0006",
      "U+0007", "U+0008", "\t", "\n", "U+000B", "\f", "\r", "U+000E",
      "U+000F", "U+0010", "U+0011", "U+0012", "U+0013", "U+0014", "U+0015",
      "U+0016", "U+0017", "U+0018", "U+0019", "U+001A", "U+001B", "U+001C",
      "U+001D", "U+001E", "U+001F", " ", "!", "\"", "#", "$", "%", "&", "'",
      "(", ")", "*", "+", ",", "-", ".", "/", "0", "1", "2", "3", "4", "5",
      "6", "7", "8", "9", ":", ";", "<", "=", ">", "?", "@", "A", "B", "C",
      "D", "E", "F", "G", "H", "I", "J", "K", "L", "M", "N", "O", "P", "Q",
      "R", "S", "T", "U", "V", "W", "X", "Y", "Z", "[", "\\", "]", "^", "_",
      "U+0060", "a", "b", "c", "d", "e", "f", "g", "h", "i", "j", "k", "l",
      "m", "n", "o", "p", "q", "r", "s", "t", "u", "v", "w", "x", "y", "z",
      "{", "|", "}", "~", "U+007F"
    >>

HexChars ==
    <<"0", "1", "2", "3", "4", "5", "6", "7", "8", "9", "A", "B", "C", "D", "E", "F">>

\* the number written in base 16 by the characters 3..i of the name of a
\* character
RECURSIVE HexVal(_, _)
HexVal(c, i) ==
    IF i < 3 THEN 0
    ELSE HexVal(c, i - 1) * 16
            + (CHOOSE k \in 1..16 : HexChars[k] = SubSeq(c, i, i)) - 1

\* ord(c) for the characters of ASCII
AsciiCode ==
    [c \in {AsciiChars[k] : k \in 1..Len(AsciiChars)} |->
        (CHOOSE k \in 1..Len(AsciiChars) : AsciiChars[k] = c) - 1]

\* ord(c)
CodeOf(c) == IF c \in DOMAIN AsciiCode THEN AsciiCode[c] ELSE HexVal(c, Len(c))

\* s < t on str: the code points of the first position where they differ
RECURSIVE StrLt(_, _)
StrLt(s, t) ==
    IF Len(t) = 0 THEN FALSE
    ELSE IF Len(s) = 0 THEN TRUE
    ELSE IF CodeOf(s[1]) # CodeOf(t[1]) THEN CodeOf(s[1]) < CodeOf(t[1])
    ELSE StrLt(Tail(s), Tail(t))

LeastStr(S) == CHOOSE x \in S : \A y \in S : ~StrLt(y, x)

\* line 246: the keys of tag_list, a SortedDict keyed by str, in iteration
\* order
RECURSIVE PkgOrder(_)
PkgOrder(S) ==
    IF S = {} THEN <<>> ELSE <<LeastStr(S)>> \o PkgOrder(S \ {LeastStr(S)})

TagDate(t) == [now |-> FALSE, at |-> t]

\* datetime.datetime.now().isoformat()
NowDate == [now |-> TRUE, at |-> 0]

BranchOfParts(p) == StrOf(p.major) \o <<".">> \o StrOf(p.minor)

\* the release branch of a tag (major.minor prefix); the trunk otherwise
tag_branch(rtag) ==
    IF rtag.valid /\ ~rtag.is_weekly /\ ~rtag.is_main
    THEN BranchOfParts(RegularParts(rtag.name))
    ELSE MainStr

\* whether the tag is the first tag cut on its release branch: a fact of
\* the history of the repository that the run is given with the tag
is_first_release_tag(rtag) == rtag.name \in first_cut

\* line 274: pull_date <= parse(tag_date)
Cut(t) == t.tag_date

\* lines 270-282: the merge dates consumed for one tag, in order: the loop
\* stops at the first one after the cut
RECURSIVE Consumed(_, _, _)
Consumed(keys, i, cut) ==
    IF i > Len(keys) THEN <<>>
    ELSE IF keys[i] <= cut THEN <<keys[i]>> \o Consumed(keys, i + 1, cut)
    ELSE <<>>

\* lines 270-273: the merge dates the loop reaches: the consumed ones and
\* the one the loop stops at; _ticket_number is called on the title of each
Reached(keys, cut) ==
    SubSeq(keys, 1, IF Len(Consumed(keys, 1, cut)) < Len(keys)
                    THEN Len(Consumed(keys, 1, cut)) + 1 ELSE Len(keys))

\* lines 273, 293: _ticket_number(title) raises (line 215); int() converts
\* every run of up to int_max_str_digits digits, so only a longer title can
TitleRaises(title) ==
    Len(title) > int_max_str_digits /\ ticket_number(title).raises

\* the position in dates of the first whose title _ticket_number raises
\* on; 0 if there is none
FirstRaising(branch_pulls, dates) ==
    IF \A i \in 1..Len(dates) : ~TitleRaises(branch_pulls[dates[i]]) THEN 0
    ELSE CHOOSE i \in 1..Len(dates) :
            /\ TitleRaises(branch_pulls[dates[i]])
            /\ \A j \in 1..(i - 1) : ~TitleRaises(branch_pulls[dates[j]])

\* the dates consumed before an exception ends the loop
ConsumedOf(branch_pulls, keys, cut) ==
    IF FirstRaising(branch_pulls, Reached(keys, cut)) = 0 THEN Consumed(keys, 1, cut)
    ELSE SubSeq(keys, 1, FirstRaising(branch_pulls, Reached(keys, cut)) - 1)

\* the added-package guard switched off
SkipNever(rtag, pkg, pd) == FALSE

\* line 277: rtag in package_diff and pkg in package_diff[rtag]["added"]
SkipAdded(rtag, pkg, pd) ==
    DiffHas(pd, rtag) /\ pkg \in DiffGet(pd, rtag).added

Entry(pkg, title, merged_at) ==
    [product |-> pkg, title |-> title, date |-> merged_at,
     ticket |-> ticket_number(title).ticket]

\* The locals of get_merged_tickets and the pulls it works on
Locals(p, r, ltd, lt, lb) ==
    [pulls |-> p, result |-> r, last_tag_date |-> ltd, last_tag |-> lt,
     last_branch |-> lb, error |-> FALSE]

\* line 269-282: the merge dates of the current branch deleted for tag t
Took(L, pkg, t) ==
    IF Contains(L.pulls[pkg], L.last_branch) /\ ~IsStr(L.pulls[pkg])
    THEN ConsumedOf(L.pulls[pkg].items[L.last_branch],
                    SortedKeys(DOMAIN L.pulls[pkg].items[L.last_branch]), Cut(t))
    ELSE <<>>

\* lines 269-273: current_pulls[last_branch] raises TypeError on a str that
\* holds the name of the branch; _ticket_number raises ValueError on a
\* title of the dates the loop reaches
TagRaises(L, pkg, t) ==
    /\ Contains(L.pulls[pkg], L.last_branch)
    /\ \/ IsStr(L.pulls[pkg])
       \/ FirstRaising(L.pulls[pkg].items[L.last_branch],
                       Reached(SortedKeys(DOMAIN L.pulls[pkg].items[L.last_branch]),
                               Cut(t))) # 0

\* lines 278-280: the entries appended for the dates took
NewEntries(pkg, branch_pulls, took) ==
    [i \in 1..Len(took) |-> Entry(pkg, branch_pulls[took[i]], took[i])]

\* line 275 left out: nothing is deleted
RemainingAll(branch_pulls, took) == branch_pulls

\* line 275: del pulls[last_branch][merged_at] for the dates took
Remaining(branch_pulls, took) ==
    [m \in (DOMAIN branch_pulls) \ {took[i] : i \in 1..Len(took)} |->
        branch_pulls[m]]

\* lines 255-257, 264, 278: the bucket of the tag after the tag
Bucket(res, name, tag_date, new) ==
    [tickets |-> (IF name \in DOMAIN res THEN res[name].tickets ELSE <<>>) \o new,
     date |-> tag_date]

\* lines 260-262
LaterDate(ltd, commit_date) ==
    IF ltd = <<>> \/ commit_date > ltd[1] THEN <<commit_date>> ELSE ltd

\* lines 283-284 without their condition: the branch of every tag is taken
BranchOfEveryTag(lb, rtag, branches) == tag_branch(rtag)

\* lines 266-267, 283-284
BranchAfter(lb, rtag, branches) ==
    IF is_first_release_tag(rtag) /\ tag_branch(rtag) \in branches
    THEN tag_branch(rtag)
    ELSE lb

TagStepOf(L, pkg, t, rtag, took, raises, pd, branches) ==
    [pulls |->
        IF Len(took) = 0 THEN L.pulls
        ELSE [L.pulls EXCEPT ![pkg].items[L.last_branch] =
                 Remaining(L.pulls[pkg].items[L.last_branch], took)],
     result |->
        (rel_name(rtag) :>
            Bucket(L.result, rel_name(rtag), TagDate(t.tag_date),
                   IF SkipAdded(rtag, pkg, pd) \/ Len(took) = 0 THEN <<>>
                   ELSE NewEntries(pkg, L.pulls[pkg].items[L.last_branch], took)))
          @@ L.result,
     last_tag_date |-> LaterDate(L.last_tag_date, t.last_commit),
     last_tag |-> t.name,
     last_branch |->
        IF raises THEN L.last_branch
        ELSE BranchAfter(L.last_branch, rtag, branches),
     error |-> raises]

\* lines 251-284: the body of `for tag in tags` for tag t of package pkg
TagStep(L, pkg, t, pd, branches) ==
    TagStepOf(L, pkg, t, Tag(t.name), Took(L, pkg, t), TagRaises(L, pkg, t), pd,
              branches)

\* line 287: if last_tag.is_regular(): continue
SkipTail(rtag) == is_regular(rtag)

\* lines 295-303: the trunk-tail bucket after the iterations for keys
TailBucket(res, pkg, main, keys, ltd) ==
    [tickets |->
        (IF TrunkTail \in DOMAIN res THEN res[TrunkTail].tickets ELSE <<>>)
           \o NewEntries(pkg, main, SelectSeq(keys, LAMBDA m : m > ltd)),
     date |-> IF TrunkTail \in DOMAIN res THEN res[TrunkTail].date ELSE NowDate]

\* lines 290-303: the loop over the pulls main of pkg, which iterate as
\* keys; _ticket_number (line 293) raises on the title at position raising
\* (0: on none), after the iterations before it have written their entries
TailWrite(L, pkg, main, keys, raising) ==
    IF raising = 1 \/ Len(keys) = 0 THEN [L EXCEPT !.error = raising # 0]
    ELSE [L EXCEPT !.result =
               (TrunkTail :>
                   TailBucket(L.result, pkg, main,
                              IF raising = 0 THEN keys
                              ELSE SubSeq(keys, 1, raising - 1),
                              L.last_tag_date[1]))
                 @@ L.result,
            !.error = raising # 0]

\* lines 286-303: what follows the tags of package pkg; is_regular of
\* None (line 287), pulls['main'] of a str (line 290) and _ticket_number
\* (line 293) raise
TailStep(L, pkg) ==
    IF L.last_tag = <<>> THEN [L EXCEPT !.error = TRUE]
    ELSE IF SkipTail(Tag(L.last_tag)) THEN L
    ELSE IF ~Contains(L.pulls[pkg], MainStr) THEN L
    ELSE IF IsStr(L.pulls[pkg]) THEN [L EXCEPT !.error = TRUE]
    ELSE TailWrite(L, pkg, L.pulls[pkg].items[MainStr],
                   SortedKeys(DOMAIN L.pulls[pkg].items[MainStr]),
                   FirstRaising(L.pulls[pkg].items[MainStr],
                                SortedKeys(DOMAIN L.pulls[pkg].items[MainStr])))

\* lines 251-284 for the tags of pkg from position i on
RECURSIVE RunTags(_, _, _, _, _, _)
RunTags(L, pkg, tags, i, pd, branches) ==
    IF i > Len(tags) \/ L.error THEN L
    ELSE RunTags(TagStep(L, pkg, tags[i], pd, branches), pkg, tags, i + 1,
                 pd, branches)

\* lines 247-303: one iteration of `for pkg in tag_list`
TailAfter(L, pkg) == IF L.error THEN L ELSE TailStep(L, pkg)

RunPackage(L, pkg, tags, pd, branches) ==
    TailAfter(RunTags([L EXCEPT !.last_branch = MainStr], pkg, tags, 1, pd,
                      branches), pkg)

\* lines 246-303 for the packages of order from position i on; the loop
\* ends where last_tag.is_regular() is called on None
RECURSIVE RunPackages(_, _, _, _, _, _)
RunPackages(L, order, i, tag_list, pd, branches) ==
    IF i > Len(order) \/ L.error THEN L
    ELSE RunPackages(RunPackage(L, order[i], tag_list[order[i]], pd, branches),
                     order, i + 1, tag_list, pd, branches)

\* get_merged_tickets as a function of its inputs, the packages of
\* tag_list iterating as order
get_merged_tickets(tag_list, pull_list, pd, branches, order) ==
    RunPackages(Locals(pull_list, <<>>, <<>>, <<>>, MainStr), order, 1,
                tag_list, pd, branches)

\* the packages of tag_list in iteration order, and the tags of one
Order == PkgOrder(DOMAIN repos.tags)

TagsOf(pkg) == repos.tags[pkg]

CurrentLocals ==
    Locals(repos.pulls, result, last_tag_date, last_tag, last_branch)

\* get_merged_tickets, lines 234-245: the locals before the loop;
\* last_branch as line 250 sets it for the first package
Enter ==
    /\ result' = <<>>
    /\ last_tag_date' = <<>>
    /\ last_tag' = <<>>
    /\ last_branch' = MainStr
    /\ pkg_idx' = 1
    /\ tag_idx' = 1
    /\ last_step' = <<>>
    /\ given_pulls' = repos.pulls
    /\ calls' = calls + 1
    /\ pc' = "loop"
    /\ UNCHANGED <<release, first_cut, github_cache, package_diff, repos, returned>>

\* get_merged_tickets(repos, package_diff) is called: with the result of
\* get_package_repos (line 329), or by a caller with the repos it made
StartCall == pc = "ready" /\ Enter

TimesOn(pulls, pkg, branch) ==
    IF branch \in DOMAIN pulls[pkg].items THEN DOMAIN pulls[pkg].items[branch] ELSE {}

TicketDates(res, name, from) ==
    {res[name].tickets[i].date : i \in (from + 1)..Len(res[name].tickets)}

CountIn(res, name) ==
    IF name \in DOMAIN res THEN Len(res[name].tickets) ELSE 0

\* history: what the step from L to N did for tag t of pkg
StepRecord(L, N, pkg, t, name) ==
    [pkg |-> pkg, tag |-> t, branch |-> L.last_branch, bucket |-> name,
     before |-> TimesOn(L.pulls, pkg, L.last_branch),
     deleted |-> TimesOn(L.pulls, pkg, L.last_branch)
                    \ TimesOn(N.pulls, pkg, L.last_branch),
     appended |-> TicketDates(N.result, name, CountIn(L.result, name))]

\* one iteration of `for tag in tags` (lines 251-284)
ProcessTag ==
    /\ pc = "loop"
    /\ pkg_idx <= Len(Order)
    /\ tag_idx <= Len(TagsOf(Order[pkg_idx]))
    /\ \E L \in {CurrentLocals} :
       \E N \in {TagStep(L, Order[pkg_idx], TagsOf(Order[pkg_idx])[tag_idx],
                         package_diff, KnownBranches(repos))} :
          /\ repos' = [repos EXCEPT !.pulls = N.pulls]
          /\ github_cache' =
                IF github_cache = <<>> THEN github_cache
                ELSE <<[github_cache[1] EXCEPT !.pulls = N.pulls]>>
          /\ result' = N.result
          /\ last_tag_date' = N.last_tag_date
          /\ last_tag' = N.last_tag
          /\ last_branch' = N.last_branch
          /\ last_step' =
                IF N.error THEN last_step
                ELSE <<StepRecord(L, N, Order[pkg_idx],
                                  TagsOf(Order[pkg_idx])[tag_idx],
                                  rel_name(Tag(N.last_tag)))>>
          /\ pc' = IF N.error THEN "error" ELSE "loop"
          /\ tag_idx' = IF N.error THEN tag_idx ELSE tag_idx + 1
    /\ UNCHANGED <<release, first_cut, package_diff, pkg_idx, calls, returned,
                   given_pulls>>

\* lines 286-303 for the current package, then the next package, whose
\* iteration begins with last_branch = 'main' (line 250)
EndPackage ==
    /\ pc = "loop"
    /\ pkg_idx <= Len(Order)
    /\ tag_idx > Len(TagsOf(Order[pkg_idx]))
    /\ \E N \in {TailStep(CurrentLocals, Order[pkg_idx])} :
          /\ result' = N.result
          /\ last_branch' =
                IF N.error \/ pkg_idx = Len(Order) THEN last_branch ELSE MainStr
          /\ pc' = IF N.error THEN "error" ELSE "loop"
          /\ pkg_idx' = IF N.error THEN pkg_idx ELSE pkg_idx + 1
          /\ tag_idx' = IF N.error THEN tag_idx ELSE 1
    /\ UNCHANGED <<release, first_cut, github_cache, package_diff, repos, last_tag_date,
                   last_tag, calls, returned, given_pulls, last_step>>

\* line 304: return result
Return ==
    /\ pc = "loop"
    /\ pkg_idx > Len(Order)
    /\ pc' = "done"
    /\ returned' = Append(returned, result)
    /\ UNCHANGED <<release, first_cut, github_cache, package_diff, repos, result,
                   last_tag_date, last_tag, last_branch, pkg_idx, tag_idx,
                   calls, given_pulls, last_step>>

MaxCalls == 2

\* get_merged_tickets called again with the same repos and package_diff
CallAgain == pc = "done" /\ calls < MaxCalls /\ Enter

-----------------------------------------------------------------------------
(* eups.py: get_releases *)

\* EupsData._url (line 44)
EupsUrl ==
    <<"h", "t", "t", "p", "s", ":", "/", "/", "e", "u", "p", "s", ".", "l", "s",
      "s", "t", ".", "c", "o", "d", "e", "s", "/", "s", "t", "a", "c", "k", "/",
      "s", "r", "c", "/", "t", "a", "g", "s", "/">>

ListExt == <<".", "l", "i", "s", "t">>

\* line 97: self._url + node.get('href')
UrlOf(href) == EupsUrl \o href

\* s.split(c)[-1]
RECURSIVE LastPart(_, _)
LastPart(s, c) ==
    IF \E i \in 1..Len(s) : s[i] = c
    THEN LastPart(SubSeq(s, (CHOOSE i \in 1..Len(s) : s[i] = c) + 1, Len(s)), c)
    ELSE s

\* s.split(c)[0]
FirstPart(s, c) ==
    IF \E i \in 1..Len(s) : s[i] = c
    THEN SubSeq(s, 1, (CHOOSE i \in 1..Len(s) : s[i] = c /\ \A j \in 1..(i - 1) : s[j] # c) - 1)
    ELSE s

\* s.replace(sub, '')
RECURSIVE Remove(_, _)
Remove(s, sub) ==
    IF Len(s) = 0 THEN <<>>
    ELSE IF StartsWith(s, sub) THEN Remove(SubSeq(s, Len(sub) + 1, Len(s)), sub)
    ELSE <<s[1]>> \o Remove(Tail(s), sub)

\* lines 145-146: the name get_releases filters on
FilterName(url) == Remove(LastPart(url, "/"), ListExt)

\* line 116: the name _download makes the key of
DownloadName(url) == FirstPart(LastPart(url, "/"), ".")

\* lines 147-151
KeepUrl(url, rel) == KeepTag(Tag(FilterName(url)), rel)

\* lines 144-152 from position i on
RECURSIVE FilterFrom(_, _, _)
FilterFrom(urls, i, rel) ==
    IF i > Len(urls) THEN <<>>
    ELSE (IF KeepUrl(urls[i].url, rel) THEN <<i>> ELSE <<>>)
            \o FilterFrom(urls, i + 1, rel)

\* line 165: release_list[name] = data['data'] on a SortedDict keyed by Tag
ReleasePut(d, name, data) ==
    IF \E e \in d : TagEq(Tag(e.name), Tag(name))
    THEN {IF TagEq(Tag(e.name), Tag(name)) THEN [e EXCEPT !.data = data] ELSE e :
             e \in d}
    ELSE d \cup {[name |-> name, data |-> data]}

\* _download (lines 115-123) and lines 158-165: what the future of a url
\* adds to release_list
Downloaded(d, u) ==
    IF u.outcome = "ok" /\ is_valid(Tag(DownloadName(u.url)))
    THEN ReleasePut(d, DownloadName(u.url), u.data)
    ELSE d

\* lines 139-152
FilterUrls ==
    /\ epc = "filter"
    /\ url_list' = FilterFrom(eups_urls, 1, release)
    /\ epc' = "download"
    /\ UNCHANGED <<eups_urls, downloaded, release_list, product_list>>

\* one iteration of `for future in as_completed(futures)` (lines 157-165)
Download ==
    /\ epc = "download"
    /\ \E k \in 1..Len(url_list) :
          /\ url_list[k] \notin downloaded
          /\ downloaded' = downloaded \cup {url_list[k]}
          /\ release_list' = Downloaded(release_list, eups_urls[url_list[k]])
    /\ UNCHANGED <<eups_urls, url_list, product_list, epc>>

\* lines 166-173
FinishReleases ==
    /\ epc = "download"
    /\ \A k \in 1..Len(url_list) : url_list[k] \in downloaded
    /\ product_list' = UNION {PackageSet(e.data) : e \in release_list}
    /\ epc' = "done"
    /\ UNCHANGED <<eups_urls, url_list, downloaded, release_list>>

-----------------------------------------------------------------------------
(* changelog.py: _fetch and _get_package_repos *)

\* github.py lines 104-109: the SortedDict get_pull_requests makes of the
\* nodes of a repository, as the set of its [mergedAt, title] items
RECURSIVE get_pull_requests(_, _)
get_pull_requests(nodes, i) ==
    IF i = 0 THEN {}
    ELSE IF nodes[i].mergedAt # <<>> /\ nodes[i].baseRefName \in {"main", "master"}
    THEN {e \in get_pull_requests(nodes, i - 1) : e.mergedAt # nodes[i].mergedAt[1]}
            \cup {[mergedAt |-> nodes[i].mergedAt[1], title |-> nodes[i].title]}
    ELSE get_pull_requests(nodes, i - 1)

\* the keys of the SortedDict of pull requests, in iteration order
PullKeys(prs) == SortedKeys({e.mergedAt : e \in prs})

\* line 101: `pulls, branches = gh.get_pull_requests(repo)` iterates the
\* SortedDict, that is its keys, and raises ValueError unless there are two
Unpacks(keys) == Len(keys) = 2

\* lines 100-108 once the pull requests are unpacked
FetchResult(repo, keys, tags) ==
    [exception |-> FALSE,
     data |-> [repo |-> repo, pulls |-> StrValue(keys[1]), tags |-> tags,
               branches |-> StrValue(keys[2])]]

\* _fetch (lines 98-108) on what GitHub holds of the repository: the state
\* of its future when it is done
FetchOf(repo, gh, keys) ==
    IF gh.raises \/ ~Unpacks(keys) THEN [exception |-> TRUE, data |-> <<>>]
    ELSE FetchResult(repo, keys, gh.tags)

_fetch(repo, gh) == FetchOf(repo, gh, PullKeys(get_pull_requests(gh.nodes, Len(gh.nodes))))

\* lines 131-134
RepoList(prods, rs) == {p \in prods : p \in rs}

\* d[repo] = value on a SortedDict keyed by the repository name
RepoPut(d, repo, value) ==
    [r \in DOMAIN d \cup {repo} |-> IF r = repo THEN value ELSE d[r]]

\* lines 144-147, without the store of line 147
StoreWithoutBranches(res, data) ==
    [pulls |-> RepoPut(res.pulls, data.repo, data.pulls),
     tags |-> RepoPut(res.tags, data.repo, data.tags),
     branches |-> res.branches]

\* lines 144-147
StoreFetched(res, data) ==
    [pulls |-> RepoPut(res.pulls, data.repo, data.pulls),
     tags |-> RepoPut(res.tags, data.repo, data.tags),
     branches |-> RepoPut(res.branches, data.repo, data.branches)]

\* lines 139-147: one iteration of the as_completed loop
Collected(res, future) ==
    IF future.exception THEN res ELSE StoreFetched(res, future.data)

\* lines 124-137: the result is set up and one future per repository of
\* repo_list is submitted
Submit ==
    /\ fpc = "start"
    /\ product_names = <<>>
    /\ cols = <<>>
    /\ row_i = 0
    /\ ppc = "off"
    /\ fetched' = [pulls |-> <<>>, tags |-> <<>>, branches |-> <<>>]
    /\ futures' = [r \in RepoList(fetch_products, DOMAIN gh_repos) |->
                     [done |-> FALSE, exception |-> FALSE, data |-> <<>>]]
    /\ fpc' = "submitted"
    /\ UNCHANGED <<fetch_products, gh_repos, finished, snapshot, collected>>

\* a worker thread finishes _fetch of one repository, in any order, before
\* or while the loop runs
Complete ==
    /\ fpc \in {"submitted", "running"}
    /\ \E r \in DOMAIN futures :
          /\ ~futures[r].done
          /\ \E f \in {_fetch(r, gh_repos[r])} :
                futures' = [futures EXCEPT
                              ![r] = [done |-> TRUE, exception |-> f.exception,
                                      data |-> f.data]]
          /\ finished' = Append(finished, r)
    /\ UNCHANGED <<fetch_products, gh_repos, snapshot, collected, fetched, fpc>>

\* line 138: as_completed begins by taking the set of the futures that are
\* already done
AsCompleted ==
    /\ fpc = "submitted"
    /\ snapshot' = {r \in DOMAIN futures : futures[r].done}
    /\ fpc' = "running"
    /\ UNCHANGED <<fetch_products, gh_repos, futures, finished, collected, fetched>>

\* the done repos as_completed has yet to yield, in the order they completed
Pending(done, yielded) ==
    SelectSeq(done, LAMBDA r : \A k \in 1..Len(yielded) : yielded[k] # r)

\* the repos as_completed may yield next: any future of the set taken at the
\* beginning, in the order of iteration of that set, which is not
\* determined; once these are yielded, the future that completed first
\* among the others
NextYield(done, first, yielded) ==
    IF \E r \in first : \A k \in 1..Len(yielded) : yielded[k] # r
    THEN {r \in first : \A k \in 1..Len(yielded) : yielded[k] # r}
    ELSE IF Len(Pending(done, yielded)) = 0 THEN {}
    ELSE {Pending(done, yielded)[1]}

\* lines 138-147: as_completed yields a future and the loop body runs
Collect ==
    /\ fpc = "running"
    /\ \E r \in NextYield(finished, snapshot, collected) :
          /\ fetched' = Collected(fetched, futures[r])
          /\ collected' = Append(collected, r)
    /\ UNCHANGED <<fetch_products, gh_repos, futures, finished, snapshot, fpc>>

\* line 148: as_completed is exhausted when every future was yielded
ReturnFetched ==
    /\ fpc = "running"
    /\ Len(collected) = Cardinality(DOMAIN futures)
    /\ fpc' = "returned"
    /\ UNCHANGED <<fetch_products, gh_repos, futures, finished, snapshot, collected, fetched>>

\* ChangeLog.get_package_repos(products, release) (lines 150-195, called
\* at line 327) begins: with nothing cached, line 168 calls
\* _get_package_repos, which runs as Submit, Complete, AsCompleted, Collect
\* and ReturnFetched while self._github_cache stays None; with a cache,
\* line 170 goes on to the filter
GetPackageRepos ==
    /\ pc = "idle"
    /\ pc' = IF github_cache = <<>> THEN "fetching" ELSE "cached"
    /\ fpc' = IF github_cache = <<>> THEN "start" ELSE fpc
    /\ UNCHANGED <<github_cache, repos, release, first_cut, package_diff, result,
                   last_tag_date, last_tag, last_branch, pkg_idx, tag_idx, calls,
                   returned, given_pulls, last_step, fetch_products, gh_repos,
                   futures, finished, snapshot, collected, fetched>>

\* line 168: _get_package_repos has returned, its frame (the futures and
\* the loop's position) is gone and its result becomes the cache;
\* lines 171-195: the tags of the cached data are filtered for the release
\* and the result is returned, or line 186 raises
FilterPackageRepos ==
    /\ pc \in {"fetching", "cached"}
    /\ pc = "fetching" => fpc = "returned"
    /\ \E cache \in {IF pc = "fetching" THEN fetched ELSE github_cache[1]} :
          \E out \in {get_package_repos(cache, release)} :
             /\ github_cache' = <<cache>>
             /\ repos' = out.repos
             /\ pc' = IF out.raises THEN "failed" ELSE "ready"
    /\ futures' = <<>>
    /\ finished' = <<>>
    /\ snapshot' = {}
    /\ collected' = <<>>
    /\ fetched' = <<>>
    /\ fpc' = "off"
    /\ UNCHANGED <<release, first_cut, package_diff, result, last_tag_date,
                   last_tag, last_branch, pkg_idx, tag_idx, calls, returned,
                   given_pulls, last_step, fetch_products, gh_repos>>

-----------------------------------------------------------------------------
(* rst.py: write_releases, the ticket table of one bucket (lines 170-188) *)

NoneStr == <<"N", "o", "n", "e">>

\* str(number)
StrOfTicket(number) == IF number = <<>> THEN NoneStr ELSE StrOf(number[1])

\* line 176: key = 'DM-' + str(number)
JiraKey(number) == <<"D", "M", "-">> \o StrOfTicket(number)

\* line 175: date = ticket['date'][:-4] + 'Z'
ShownDate(date) == SubSeq(date, 1, Len(date) - 4) \o <<"Z">>

\* the SortedDict ticket_dict puts a new key in order by comparing it with
\* the keys it holds: None and an int do not compare (TypeError)
Comparable(d, number) == \A k \in DOMAIN d : (k = <<>>) = (number = <<>>)

\* lines 181-184: the first change of a number makes the entry with its
\* date; a later one appends its product to the list of the entry
DictAdd(d, number, msg, date, product) ==
    IF number \in DOMAIN d
    THEN [raises |-> FALSE,
          dict |-> [d EXCEPT ![number].products = Append(@, product)]]
    ELSE IF ~Comparable(d, number) THEN [raises |-> TRUE, dict |-> d]
    ELSE [raises |-> FALSE,
          dict |-> (number :> [msg |-> msg, date |-> date, products |-> <<product>>])
                      @@ d]

\* ', '.join(products)
RECURSIVE Join(_)
Join(products) ==
    IF Len(products) = 0 THEN <<>>
    ELSE IF Len(products) = 1 THEN <<products[1]>>
    ELSE <<products[1], ", ">> \o Join(Tail(products))

\* the backquote character
BackQuote == "U+0060"

\* line 187: the text of the link to the ticket,
\* 'DM-{number} <https://jira.lsstcorp.org/browse/DM-{number}>' between
\* two backquotes and followed by an underscore
JiraBrowse ==
    <<" ", "<", "h", "t", "t", "p", "s", ":", "/", "/", "j", "i", "r", "a", ".",
      "l", "s", "s", "t", "c", "o", "r", "p", ".", "o", "r", "g", "/",
      "b", "r", "o", "w", "s", "e", "/">>

TicketLink(number) ==
    <<BackQuote>> \o JiraKey(number) \o JiraBrowse \o JiraKey(number)
        \o <<">", BackQuote, "_">>

\* lines 185-188: one row per key of ticket_dict, in the order of the keys
RowOf(d, number) ==
    [link |-> TicketLink(number), msg |-> d[number].msg, date |-> d[number].date,
     product |-> Join(d[number].products)]

\* line 185: the keys of ticket_dict in iteration order; the key None
\* stands alone
SortedTickets(d) ==
    IF <<>> \in DOMAIN d THEN <<<<>>>>
    ELSE [i \in 1..Cardinality(DOMAIN d) |->
             <<SortedKeys({number[1] : number \in DOMAIN d})[i]>>]

Rows(d) == [i \in 1..Len(SortedTickets(d)) |-> RowOf(d, SortedTickets(d)[i])]

\* one iteration of `for ticket in tickets` (lines 173-184)
WriteTicket ==
    /\ wpc = "tickets"
    /\ ticket_idx < Len(tickets)
    /\ ticket_idx' = ticket_idx + 1
    /\ IF JiraKey(tickets[ticket_idx + 1].ticket) \in DOMAIN jira
       THEN \E a \in {DictAdd(ticket_dict, tickets[ticket_idx + 1].ticket,
                               jira[JiraKey(tickets[ticket_idx + 1].ticket)],
                               ShownDate(tickets[ticket_idx + 1].date),
                               tickets[ticket_idx + 1].product)} :
               /\ ticket_dict' = a.dict
               /\ wpc' = IF a.raises THEN "error" ELSE wpc
       ELSE UNCHANGED <<ticket_dict, wpc>>
    /\ UNCHANGED <<jira, tickets, row>>

\* the loop has ended
EndTickets ==
    /\ wpc = "tickets"
    /\ ticket_idx = Len(tickets)
    /\ wpc' = "rows"
    /\ UNCHANGED <<jira, tickets, ticket_idx, ticket_dict, row>>

\* lines 185-188
WriteRows ==
    /\ wpc = "rows"
    /\ row' = Rows(ticket_dict)
    /\ wpc' = "done"
    /\ UNCHANGED <<jira, tickets, ticket_idx, ticket_dict>>

-----------------------------------------------------------------------------
(* rst.py: write_products (lines 40-74) *)

\* the default of the parameter ncols (line 40)
ncols == 5

\* line 56
GitHubUrl ==
    <<"h", "t", "t", "p", "s", ":", "/", "/", "g", "i", "t", "h", "u", "b", ".",
      "c", "o", "m", "/", "l", "s", "s", "t", "/">>

\* line 66: the link of a product, a backquote, the name, ' <', the url,
\* the name, '>', a backquote and '_'
Link(product) ==
    <<BackQuote>> \o product \o <<" ", "<">> \o GitHubUrl \o product
        \o <<">", BackQuote, "_">>

\* line 58: r = products_len // ncols + (products_len % ncols) // ncols
RowCount(products_len) ==
    (products_len \div ncols) + ((products_len % ncols) \div ncols)

\* lines 62-69: the cell of column j (from 0) of row i (from 0)
Cell(products, i, j) ==
    IF i * ncols + j < Len(products) THEN Link(products[i * ncols + j + 1]) ELSE <<>>

\* lines 60-69: row i of the table
ProductRow(products, i) == [j \in 1..ncols |-> Cell(products, i, j - 1)]

\* lines 54-58
StartProducts ==
    /\ ppc = "start"
    /\ cols' = <<>>
    /\ row_i' = 0
    /\ ppc' = "rows"
    /\ UNCHANGED product_names

\* one iteration of `for i in range(r)` (lines 59-70)
WriteProductRow ==
    /\ ppc = "rows"
    /\ row_i < RowCount(Len(product_names))
    /\ cols' = Append(cols, ProductRow(product_names, row_i))
    /\ row_i' = row_i + 1
    /\ UNCHANGED <<product_names, ppc>>

\* lines 70-74: the table is written with the rows of cols
WriteProductsTable ==
    /\ ppc = "rows"
    /\ row_i >= RowCount(Len(product_names))
    /\ ppc' = "done"
    /\ UNCHANGED <<product_names, cols, row_i>>

-----------------------------------------------------------------------------
(* Tag strings given to Tag(): bounded inputs of the tag specification *)

Sp(s) == IF s = "" THEN <<>> ELSE <<s>>

\* [v]major.minor[.patch][.rc<n>]; patch or rc below 0: the part is absent
NumName(v, major, minor, patch, rc) ==
    Sp(v) \o StrOf(major) \o <<".">> \o StrOf(minor)
       \o (IF patch < 0 THEN <<>> ELSE <<".">> \o StrOf(patch))
       \o (IF rc < 0 THEN <<>> ELSE <<".", "r", "c">> \o StrOf(rc))

Majors == {9, 10, 1000}
Minors == {0, 1, 100}
Patches == {-1, 0, 2, 3, 100}
Rcs == {-1, 3, 99, 199}

NumberedNames ==
    {NumName("v", ma, mi, pa, rc) :
        ma \in Majors, mi \in Minors, pa \in Patches, rc \in Rcs}

\* a run of n zeros
Zeros(n) == [i \in 1..n |-> "0"]

SpecialNames ==
    { <<"9", "_", "1", "_", "0">>,
      <<"9", ".", "1", ".", "2">>,
      <<"9", ".", "0">>,
      <<"v", "9", "_", "0">>,
      <<"v", "9", "|", "1">>,
      <<"v", "9", ".", "1", "|", "r", "c", "2">>,
      <<"v", "9">>,
      <<"v", "8", ".", "0">>,
      <<"8", ".", "9", ".", "9">>,
      <<"v", "1", "0", "0", "1", ".", "0">>,
      <<"v", "9", ".", "9", "9", "9", "9", "9", "9">>,
      <<"v", "1", "0", "0", "0", ".", "9", "0", "0", "0", "0", "0">>,
      <<"v", "9", ".", "1", ".", "r", "c">>,
      <<"x", "9", ".", "1">>,
      <<"w", ".", "2", "0", "2", "3", ".", "1", "0">>,
      <<"w", "_", "2", "0", "2", "3", "_", "1", "0">>,
      <<"w", "_", "2", "0", "2", "3", "_", "1", "1">>,
      <<"w", "|", "2", "0", "2", "3", "|", "1", "0">>,
      <<"w", ".", "9", "9", "9", "9", ".", "9", "9">>,
      <<"w", ".", "2", "0", "2", "3", ".", "1">>,
      <<"w", "2", "0", "2", "3", ".", "1", "0">>,
      <<"w", ".", "2", "0", "2", "3", ".", "1", "0", "0">>,
      <<"m", "a", "i", "n">>,
      <<"~", "m", "a", "i", "n">>,
      <<"w", ".", "m", "a", "i", "n">>,
      <<"f", "o", "o">>,
      <<"v", "9", ".", "0", "\n">>,
      <<"v", "9", ".", "0", ".", "r", "c", "1", "\n">>,
      <<"v", "9", ".", "0", "\n", "\n">>,
      <<"w", ".", "2", "0", "2", "3", ".", "1", "0", "\n">>,
      <<"v", "9", ".", "U+0669">>,
      <<"v", "9", ".">> \o Zeros(int_max_str_digits),
      <<"v", "9", ".">> \o Zeros(int_max_str_digits + 1),
      <<"w", ".", "U+0662", "0", "2", "3", ".", "1", "0">>,
      <<>> }

TagNames == NumberedNames \cup SpecialNames

-----------------------------------------------------------------------------
(* Manifests given to get_package_diff: bounded inputs *)

MaxReleases == 3

DiffPkgs == <<"a", "b", "c", "d">>

\* the manifest of a set of packages, in the order of the .list file
RECURSIVE Manifest(_, _)
Manifest(S, i) ==
    IF i > Len(DiffPkgs) THEN <<>>
    ELSE (IF DiffPkgs[i] \in S
          THEN <<[package |-> DiffPkgs[i], flavor |-> "generic", version |-> "1"]>>
          ELSE <<>>) \o Manifest(S, i + 1)

\* the weekly tag of week k (k < 90): w.2023.<k+9>
WeekName(k) == <<"w", ".", "2", "0", "2", "3", ".">> \o StrOf(k + 9)

PkgSets == SUBSET {DiffPkgs[i] : i \in 1..Len(DiffPkgs)}

ReleaseInputs ==
    UNION {[1..n -> PkgSets] : n \in 0..MaxReleases}

MakeReleases(f) ==
    [i \in DOMAIN f |-> [name |-> WeekName(i), data |-> Manifest(f[i], 1)]]

-----------------------------------------------------------------------------
(* Repositories given to get_package_repos / get_merged_tickets: bounded   *)
(* inputs.  Every repository carries, besides the tags of the cadence of   *)
(* the run, a tag of the other cadence and a tag of neither grammar.       *)
(* get_merged_tickets is given the repos its caller made: the tags of each *)
(* repository that get_package_repos keeps, a dict of pulls by branch and  *)
(* a list of branch names; or it is given what get_package_repos returns   *)
(* for the products and what GitHub holds.                                 *)

MaxTime == 2

Times == 1..MaxTime

W1 == WeekName(1)
W2 == <<"w", "_", "2", "0", "2", "3", "_", "1", "1">>
R1 == <<"v", "9", ".", "0", ".", "r", "c", "1">>
R2 == <<"v", "9", ".", "0">>
ReleaseBranch == <<"9", ".", "0">>

\* a lightweight tag: the ref points to a commit
Light(name, c) == [name |-> name, target |-> [committedDate |-> c]]

\* an annotated tag: a tag object made at d that points to a commit of c
Annotated(name, c, d) == [name |-> name, target |-> [tagger |-> d, target |-> c]]

LightChoices(name) == {<<>>} \cup {<<Light(name, c)>> : c \in Times}

TagChoices(name) ==
    LightChoices(name) \cup {<<Annotated(name, c, c + 1)>> : c \in Times}

\* the title of the pull request merged at t
TitleAt(t) ==
    IF t % 3 = 0 THEN <<"f", "i", "x">>
    ELSE IF t % 3 = 2 THEN <<"d", "m", "-">> \o StrOf(t)
    ELSE <<"D", "M", "-">> \o StrOf(t) \o <<":", " ", "f", "i", "x">>

\* the pulls of one branch: a branch without pull requests has no key
BranchPulls(branch, S) ==
    IF S = {} THEN <<>> ELSE branch :> [t \in S |-> TitleAt(t)]

\* the pulls of one repository
PullsOf(main, rel) ==
    ItemsValue(BranchPulls(MainStr, main) @@ BranchPulls(ReleaseBranch, rel))

\* the tags of a repository as repos['tags'] holds them
KeptTags(raws, rel) == RepoTags(raws, Len(raws), rel)

\* the tags of one repository as GitHub lists them (in no particular order)
RawTags(rel, t1, t2, tm) ==
    <<Light(<<"f", "o", "o">>, 1)>> \o t2 \o tm
        \o <<Light(IF rel = WEEKLY THEN R2 ELSE W1, 1)>> \o t1

FirstName(rel) == IF rel = WEEKLY THEN W1 ELSE R1
SecondName(rel) == IF rel = WEEKLY THEN W2 ELSE R2

\* the names of two packages
Afw == <<"a", "f", "w">>
Base == <<"b", "a", "s", "e">>

AddedDiffs(rel) ==
    {{}} \cup {{[tag |-> n, added |-> {Afw}, removed |-> {}]} :
                  n \in {FirstName(rel), SecondName(rel)}}

\* the tag that was the first cut on the release branch 9.0: of the tags
\* of the runs below the candidate v9.0.rc1; a weekly run has no such tag
FirstCuts(rel) == IF rel = REGULAR THEN {R1} ELSE {}

\* the kept tags of a repository for every choice of its tags
KeptChoices(rel, c1, c2, cm) ==
    {KeptTags(RawTags(rel, t1, t2, tm), rel) : t1 \in c1, t2 \in c2, tm \in cm}

\* one repository, afw, with lightweight and annotated tags, a trunk tag
\* (weekly runs), a release branch (regular runs) and a package diff
OnePackageInputs ==
    {[release |-> rel,
      first_cut |-> FirstCuts(rel),
      repos |-> [pulls |-> Afw :> PullsOf(main, rb),
                 tags |-> Afw :> kept,
                 branches |-> Afw :> ItemsValue(<<MainStr>> \o br)],
      package_diff |-> pd] :
        rel \in {WEEKLY},
        kept \in KeptChoices(WEEKLY, TagChoices(W1), TagChoices(W2),
                             LightChoices(MainStr)),
        main \in SUBSET Times, rb \in {{}},
        br \in {<<>>}, pd \in AddedDiffs(WEEKLY)}
    \cup
    {[release |-> rel,
      first_cut |-> FirstCuts(rel),
      repos |-> [pulls |-> Afw :> PullsOf(main, rb),
                 tags |-> Afw :> kept,
                 branches |-> Afw :> ItemsValue(<<MainStr>> \o br)],
      package_diff |-> pd] :
        rel \in {REGULAR},
        kept \in KeptChoices(REGULAR, TagChoices(R1), TagChoices(R2), {<<>>}),
        main \in SUBSET Times, rb \in SUBSET Times,
        br \in {<<>>, <<ReleaseBranch>>}, pd \in AddedDiffs(REGULAR)}

\* the kept tags of a repository with lightweight tags only
LightKept(rel) ==
    KeptChoices(rel, LightChoices(FirstName(rel)), LightChoices(SecondName(rel)),
                {<<>>})

\* two repositories, afw and base, with lightweight tags and trunk merges
TwoPackageInputsOf(rel) ==
    {[release |-> rel,
      first_cut |-> FirstCuts(rel),
      repos |-> [pulls |-> (Afw :> PullsOf(ma, {})) @@ (Base :> PullsOf(mb, {})),
                 tags |-> (Afw :> ka) @@ (Base :> kb),
                 branches |-> (Afw :> ItemsValue(<<MainStr>>))
                                 @@ (Base :> ItemsValue(<<MainStr>>))],
      package_diff |-> {}] :
        ka \in LightKept(rel), kb \in LightKept(rel),
        ma \in SUBSET Times, mb \in SUBSET Times}

TwoPackageInputs == TwoPackageInputsOf(WEEKLY) \cup TwoPackageInputsOf(REGULAR)

\* the end-to-end scenario of the specification: package p, tags v9.0 @ 100
\* and v9.1 @ 200, trunk merges DM-1, DM-2, DM-3 at 50, 150, 250
EndToEndInput ==
    [release |-> REGULAR,
     first_cut |-> {<<"v", "9", ".", "0">>, <<"v", "9", ".", "1">>},
     repos |-> [pulls |-> <<"p">> :> ItemsValue(MainStr :>
                    ((50 :> <<"D", "M", "-", "1">>)
                       @@ (150 :> <<"D", "M", "-", "2">>)
                       @@ (250 :> <<"D", "M", "-", "3">>))),
                tags |-> <<"p">> :> KeptTags(<<Light(<<"v", "9", ".", "1">>, 200),
                                            Light(<<"v", "9", ".", "0">>, 100)>>,
                                          REGULAR),
                branches |-> <<"p">> :> ItemsValue(<<MainStr>>)],
     package_diff |-> {}]

\* a pull request whose title holds 'DM-' and more digits than int()
\* converts: met by the loop of the tag w_2023_10 (merged at 2) or by the
\* loop of the trunk tail (merged at 3)
LongTitle == <<"D", "M", "-">> \o Zeros(int_max_str_digits + 1)

LongTitleInputs ==
    {[release |-> WEEKLY,
      first_cut |-> {},
      repos |-> [pulls |-> <<"p">> :> ItemsValue(MainStr :>
                     ((1 :> TitleAt(1)) @@ (2 :> TitleAt(2)) @@ (t :> LongTitle))),
                 tags |-> <<"p">> :> KeptTags(<<Light(W1, 1)>>, WEEKLY),
                 branches |-> <<"p">> :> ItemsValue(<<MainStr>>)],
      package_diff |-> {}] : t \in {2, 3}}

\* the first tag cut on the branch 9.0 is the candidate, the release, or a
\* tag that is not among the tags of the run
FirstCutChoices == {{}, {R1}, {R2}}

\* two repositories with pull requests merged to the release branch 9.0:
\* afw has the candidate and the release of 9.0 and lists the branch or
\* not, base has any of the two tags and does not list the branch
SwitchInputs ==
    {[release |-> REGULAR,
      first_cut |-> fc,
      repos |-> [pulls |-> (Afw :> PullsOf(ma, Times)) @@ (Base :> PullsOf(Times, Times)),
                 tags |-> (Afw :> KeptTags(<<Light(R2, MaxTime), Light(R1, c1)>>,
                                           REGULAR))
                              @@ (Base :> kb),
                 branches |-> (Afw :> ItemsValue(<<MainStr>> \o br))
                                 @@ (Base :> ItemsValue(<<MainStr>>))],
      package_diff |-> {}] :
        fc \in FirstCutChoices, c1 \in Times, ma \in SUBSET Times,
        kb \in LightKept(REGULAR), br \in {<<>>, <<ReleaseBranch>>}}

Inputs ==
    OnePackageInputs \cup TwoPackageInputs \cup {EndToEndInput} \cup LongTitleInputs
        \cup SwitchInputs

\* a lightweight tag as the query of get_tags asks for it (github.py lines
\* 170-172): the date of the commit is its authoredDate
Authored(name, c) == [name |-> name, target |-> [authoredDate |-> c]]

\* the pull requests of a repository merged to the trunk at the times S
TrunkNodes(S) ==
    [i \in 1..Cardinality(S) |->
        [baseRefName |-> "main", title |-> TitleAt(SortedKeys(S)[i]),
         mergedAt |-> <<SortedKeys(S)[i]>>]]

\* what GitHub holds of the repository base: nothing, or two pull requests
\* and a tag, with a fetch that raises or not
BaseChoices(rel) ==
    {<<>>} \cup {Base :> [nodes |-> TrunkNodes({1, 2}),
                          tags |-> RawTags(rel, <<Light(FirstName(rel), 1)>>, <<>>, <<>>),
                          raises |-> x] : x \in BOOLEAN}

MaxPulls == 3

\* the products afw and base, and GitHub with the repository afw (up to
\* MaxPulls pull requests merged to the trunk) and with or without base
PipelineInputsOf(rel) ==
    {[release |-> rel,
      first_cut |-> FirstCuts(rel),
      products |-> {Afw, Base},
      gh |-> (Afw :> [nodes |-> TrunkNodes(S), tags |-> RawTags(rel, t1, t2, <<>>),
                      raises |-> FALSE]) @@ b,
      package_diff |-> {}] :
        S \in SUBSET (1..MaxPulls),
        t1 \in TagChoices(FirstName(rel)) \cup {<<Authored(FirstName(rel), 1)>>},
        t2 \in LightChoices(SecondName(rel)), b \in BaseChoices(rel)}

PipelineInputs == PipelineInputsOf(WEEKLY) \cup PipelineInputsOf(REGULAR)

-----------------------------------------------------------------------------
(* Buckets given to write_releases: bounded inputs.  A bucket holds the      *)
(* changes of its packages in the order get_merged_tickets appends them:    *)
(* package after package, the changes of a package by ascending merge date. *)

MaxTickets == 3

MergeSeconds == {0, 1, 60}

RstTitles == {<<"D", "M", "-", "1">>, <<"D", "M", "-", "2">>, <<"f", "i", "x">>}

RstPkgs == <<"a", "b">>

PkgPos(pkg) == CHOOSE i \in 1..Len(RstPkgs) : RstPkgs[i] = pkg

Changes ==
    {[product |-> RstPkgs[i], at |-> t, title |-> ti] :
        i \in 1..Len(RstPkgs), t \in MergeSeconds, ti \in RstTitles}

InBucketOrder(f) ==
    \A i \in 1..(Len(f) - 1) :
        \/ PkgPos(f[i].product) < PkgPos(f[i + 1].product)
        \/ f[i].product = f[i + 1].product /\ f[i].at < f[i + 1].at

BucketInputs ==
    UNION {{f \in [1..n -> Changes] : InBucketOrder(f)} : n \in 0..MaxTickets}

MakeTickets(f) == [i \in 1..Len(f) |-> Entry(f[i].product, f[i].title, IsoOf(f[i].at))]

Summary(n) == <<"s">> \o StrOf(n)

\* the dictionary of summaries holds a subset of the keys DM-1, DM-2 and
\* DM-None
JiraInputs ==
    {[k \in {JiraKey(n) : n \in S} |->
         IF k = JiraKey(<<>>) THEN <<"n", "o", "n", "e">>
         ELSE Summary(IntOf(SubSeq(k, 4, Len(k))))] :
        S \in SUBSET {<<1>>, <<2>>, <<>>}}

-----------------------------------------------------------------------------
(* Titles given to _ticket_number: bounded inputs *)

Chars(S) == {<<>>} \cup {<<c>> : c \in S}

TitleHeads ==
    {<<>>, <<"t", "i", "c", "k", "e", "t", "s", "/">>, <<"a">>,
     <<"D", "M", " ", "x", " ">>, <<"U+00DF">>}

TitleMarks == {<<"D", "M">>, <<"d", "m">>, <<"D", "m">>, <<"D", "N">>}

TitleSeps ==
    Chars({"-", " ", "\t", "\f", "U+00A0", "*", "|", "_", ":"})
        \cup {<<"-", "-">>, <<" ", "-">>, <<" ", " ", " ">>}

TitleDigits ==
    {<<>>, <<"7">>, <<"1", "2">>, <<"1", "2", "3", "4">>, <<"0", "0", "7">>,
     <<"1", "U+0663">>}

TitleTails ==
    {<<>>, <<":", " ", "f", "i", "x", " ", "t", "h", "i", "n", "g">>,
     <<" ", "a", "n", "d", " ", "D", "M", "-", "6">>}

Titles ==
    {h \o k \o p \o d \o t :
        h \in TitleHeads, k \in TitleMarks, p \in TitleSeps, d \in TitleDigits,
        t \in TitleTails}
    \cup {<<"n", "o", " ", "t", "i", "c", "k", "e", "t", " ", "h", "e", "r", "e">>,
          <<"D", "M", "-">> \o Zeros(int_max_str_digits),
          <<"d", "m", "-">> \o Zeros(int_max_str_digits + 1)}

-----------------------------------------------------------------------------
(* Files of the EUPS server given to get_releases: bounded inputs *)

MaxUrls == 2

EupsNames ==
    {<<"w", "_", "2", "0", "2", "3", "_", "1", "0">>,
     <<"w", "_", "2", "0", "2", "3", "_", "1", "1">>,
     <<"w", ".", "2", "0", "2", "3", ".", "1", "0">>,
     <<"v", "9", "_", "0">>,
     <<"v", "9", "_", "0", "_", "r", "c", "1">>,
     <<"v", "9", "_", "0", ".", "1">>,
     <<"v", "8", "_", "0">>,
     <<"9", "_", "0", ".", "m", "a", "i", "n">>,
     <<"m", "a", "i", "n">>,
     <<"w", "_", "l", "a", "t", "e", "s", "t">>,
     <<"f", "o", "o">>}

EupsFiles ==
    {[url |-> UrlOf(n \o ListExt), outcome |-> o, data |-> Manifest(S, 1)] :
        n \in EupsNames, o \in {"ok", "status", "raise"}, S \in {{"a"}, {"a", "b"}}}

EupsInputs ==
    UNION {{f \in [1..n -> EupsFiles] :
               \A i, j \in 1..n : f[i].url = f[j].url => i = j} : n \in 0..MaxUrls}

-----------------------------------------------------------------------------
(* GitHub as _get_package_repos sees it: bounded inputs *)

FetchRepos == {"a", "b", "c"}

\* the i-th pull request of a repository: the third is merged to a release
\* branch, the fourth is not merged
PullNode(i) ==
    [baseRefName |-> IF i = 3 THEN "9.0" ELSE IF i = 2 THEN "master" ELSE "main",
     title |-> <<"D", "M", "-", DigitChars[i + 1]>>,
     mergedAt |-> IF i = 4 THEN <<>> ELSE <<i>>]

FetchTags(repo) ==
    IF repo = "a" THEN <<>>
    ELSE <<[name |-> <<"v", "9", "_", "0">>, target |-> [committedDate |-> 1]]>>

GitHubOf(repo) ==
    {[nodes |-> [i \in 1..n |-> PullNode(i)], tags |-> FetchTags(repo), raises |-> x] :
        n \in 0..MaxPulls, x \in BOOLEAN}

GitHubInputs ==
    UNION {{g \in [D -> UNION {GitHubOf(r) : r \in D}] : \A r \in D : g[r] \in GitHubOf(r)} :
              D \in SUBSET FetchRepos}

ProductInputs == {{"a", "b", "c"}, {"b", "c", "d"}}

-----------------------------------------------------------------------------
(* Products given to write_products: bounded inputs *)

MaxProducts == 11

\* the product names: single letters, a SortedList keeps them in this order
ProductNames == [k \in 1..MaxProducts |-> <<LowerChars[k]>>]

\* the SortedList of the products at the positions S
RECURSIVE SortedProducts(_, _)
SortedProducts(S, k) ==
    IF k > MaxProducts THEN <<>>
    ELSE (IF k \in S THEN <<ProductNames[k]>> ELSE <<>>) \o SortedProducts(S, k + 1)

ProductLists == {SortedProducts(S, 1) : S \in SUBSET (1..MaxProducts)}

-----------------------------------------------------------------------------
(* The tag specification: construct two tags from two strings *)

InitTag ==
    /\ names \in TagNames \X TagNames
    /\ tagobjs = <<>>
    /\ releases = <<>>
    /\ diff_idx = 0
    /\ last_release = <<>>
    /\ diff_result = {}
    /\ release = WEEKLY
    /\ first_cut = {}
    /\ github_cache = <<>>
    /\ package_diff = {}
    /\ repos = <<>>
    /\ result = <<>>
    /\ last_tag_date = <<>>
    /\ last_tag = <<>>
    /\ last_branch = <<>>
    /\ pkg_idx = 0
    /\ tag_idx = 0
    /\ pc = "off"
    /\ calls = 0
    /\ returned = <<>>
    /\ given_pulls = <<>>
    /\ last_step = <<>>
    /\ matched = <<>>
    /\ pr_title = <<>>
    /\ parsed = <<>>
    /\ eups_urls = <<>>
    /\ url_list = <<>>
    /\ downloaded = {}
    /\ release_list = {}
    /\ product_list = {}
    /\ epc = "off"
    /\ fetch_products = {}
    /\ gh_repos = {}
    /\ futures = <<>>
    /\ finished = <<>>
    /\ snapshot = {}
    /\ collected = <<>>
    /\ fetched = <<>>
    /\ fpc = "off"
    /\ product_names = <<>>
    /\ cols = <<>>
    /\ row_i = 0
    /\ ppc = "off"
    /\ jira = <<>>
    /\ tickets = <<>>
    /\ ticket_idx = 0
    /\ ticket_dict = <<>>
    /\ row = <<>>
    /\ wpc = "off"

\* Tag(name) for both strings
Construct ==
    /\ names # <<>>
    /\ tagobjs = <<>>
    /\ tagobjs' = <<Tag(names[1]), Tag(names[2])>>
    /\ UNCHANGED <<names, matched>>

\* matches_release(tag, release) for both tags and both release types
MatchRelease ==
    /\ tagobjs # <<>>
    /\ matched = <<>>
    /\ matched' = [i \in 1..2 |->
                     [weekly |-> matches_release(tagobjs[i], WEEKLY),
                      regular |-> matches_release(tagobjs[i], REGULAR)]]
    /\ UNCHANGED <<names, tagobjs>>

NextTag ==
    \/ Construct /\ UNCHANGED <<diffVars, logVars, rstVars, ticketVars, eupsVars, fetchVars, productVars>>
    \/ MatchRelease /\ UNCHANGED <<diffVars, logVars, rstVars, ticketVars, eupsVars, fetchVars, productVars>>

SpecTag == InitTag /\ [][NextTag]_vars

-----------------------------------------------------------------------------
(* The package-diff specification *)

InitDiff ==
    /\ \E f \in ReleaseInputs : releases = MakeReleases(f)
    /\ diff_idx = 0
    /\ last_release = <<>>
    /\ diff_result = {}
    /\ names = <<>>
    /\ tagobjs = <<>>
    /\ release = WEEKLY
    /\ first_cut = {}
    /\ github_cache = <<>>
    /\ package_diff = {}
    /\ repos = <<>>
    /\ result = <<>>
    /\ last_tag_date = <<>>
    /\ last_tag = <<>>
    /\ last_branch = <<>>
    /\ pkg_idx = 0
    /\ tag_idx = 0
    /\ pc = "off"
    /\ calls = 0
    /\ returned = <<>>
    /\ given_pulls = <<>>
    /\ last_step = <<>>
    /\ matched = <<>>
    /\ pr_title = <<>>
    /\ parsed = <<>>
    /\ eups_urls = <<>>
    /\ url_list = <<>>
    /\ downloaded = {}
    /\ release_list = {}
    /\ product_list = {}
    /\ epc = "off"
    /\ fetch_products = {}
    /\ gh_repos = {}
    /\ futures = <<>>
    /\ finished = <<>>
    /\ snapshot = {}
    /\ collected = <<>>
    /\ fetched = <<>>
    /\ fpc = "off"
    /\ product_names = <<>>
    /\ cols = <<>>
    /\ row_i = 0
    /\ ppc = "off"
    /\ jira = <<>>
    /\ tickets = <<>>
    /\ ticket_idx = 0
    /\ ticket_dict = <<>>
    /\ row = <<>>
    /\ wpc = "off"

NextDiff == DiffStep /\ UNCHANGED <<tagVars, logVars, rstVars, ticketVars, eupsVars, fetchVars, productVars>>

SpecDiff == InitDiff /\ [][NextDiff]_vars


-----------------------------------------------------------------------------
(* The changelog specification: get_package_repos, then get_merged_tickets *)

Init ==
    /\ \/ \E in \in PipelineInputs :
             /\ release = in.release
             /\ first_cut = in.first_cut
             /\ fetch_products = in.products
             /\ gh_repos = in.gh
             /\ package_diff = in.package_diff
             /\ repos = <<>>
             /\ pc = "idle"
       \/ \E in \in Inputs :
             /\ release = in.release
             /\ first_cut = in.first_cut
             /\ fetch_products = {}
             /\ gh_repos = <<>>
             /\ package_diff = in.package_diff
             /\ repos = in.repos
             /\ pc = "ready"
    /\ github_cache = <<>>
    /\ result = <<>>
    /\ last_tag_date = <<>>
    /\ last_tag = <<>>
    /\ last_branch = <<>>
    /\ pkg_idx = 0
    /\ tag_idx = 0
    /\ calls = 0
    /\ returned = <<>>
    /\ given_pulls = <<>>
    /\ last_step = <<>>
    /\ matched = <<>>
    /\ pr_title = <<>>
    /\ parsed = <<>>
    /\ eups_urls = <<>>
    /\ url_list = <<>>
    /\ downloaded = {}
    /\ release_list = {}
    /\ product_list = {}
    /\ epc = "off"
    /\ futures = <<>>
    /\ finished = <<>>
    /\ snapshot = {}
    /\ collected = <<>>
    /\ fetched = <<>>
    /\ fpc = "off"
    /\ product_names = <<>>
    /\ cols = <<>>
    /\ row_i = 0
    /\ ppc = "off"
    /\ jira = <<>>
    /\ tickets = <<>>
    /\ ticket_idx = 0
    /\ ticket_dict = <<>>
    /\ row = <<>>
    /\ wpc = "off"
    /\ names = <<>>
    /\ tagobjs = <<>>
    /\ releases = <<>>
    /\ diff_idx = 0
    /\ last_release = <<>>
    /\ diff_result = {}

\* a step of _get_package_repos changes nothing else
FetchOnly ==
    UNCHANGED <<tagVars, diffVars, rstVars, ticketVars, eupsVars, productVars, github_cache,
                release, first_cut, package_diff, repos, result, last_tag_date, last_tag,
                last_branch, pkg_idx, tag_idx, pc, calls, returned, given_pulls,
                last_step>>

Next ==
    \/ GetPackageRepos /\ UNCHANGED <<tagVars, diffVars, rstVars, ticketVars, eupsVars, productVars>>
    \/ Submit /\ FetchOnly
    \/ Complete /\ FetchOnly
    \/ AsCompleted /\ FetchOnly
    \/ Collect /\ FetchOnly
    \/ ReturnFetched /\ FetchOnly
    \/ FilterPackageRepos /\ UNCHANGED <<tagVars, diffVars, rstVars, ticketVars, eupsVars, productVars>>
    \/ StartCall /\ UNCHANGED <<tagVars, diffVars, rstVars, ticketVars, eupsVars, fetchVars, productVars>>
    \/ ProcessTag /\ UNCHANGED <<tagVars, diffVars, rstVars, ticketVars, eupsVars, fetchVars, productVars>>
    \/ EndPackage /\ UNCHANGED <<tagVars, diffVars, rstVars, ticketVars, eupsVars, fetchVars, productVars>>
    \/ Return /\ UNCHANGED <<tagVars, diffVars, rstVars, ticketVars, eupsVars, fetchVars, productVars>>

Spec == Init /\ [][Next]_vars

\* the same, with get_merged_tickets called up to MaxCalls times
NextTwice == Next \/ (CallAgain /\ UNCHANGED <<tagVars, diffVars, rstVars, ticketVars, eupsVars, fetchVars, productVars>>)

SpecTwice == Init /\ [][NextTwice]_vars

-----------------------------------------------------------------------------
(* The ticket-table specification: write_releases on one bucket *)

InitRst ==
    /\ jira \in JiraInputs
    /\ \E f \in BucketInputs : tickets = MakeTickets(f)
    /\ ticket_idx = 0
    /\ ticket_dict = <<>>
    /\ row = <<>>
    /\ wpc = "tickets"
    /\ names = <<>>
    /\ tagobjs = <<>>
    /\ releases = <<>>
    /\ diff_idx = 0
    /\ last_release = <<>>
    /\ diff_result = {}
    /\ release = WEEKLY
    /\ first_cut = {}
    /\ github_cache = <<>>
    /\ package_diff = {}
    /\ repos = <<>>
    /\ result = <<>>
    /\ last_tag_date = <<>>
    /\ last_tag = <<>>
    /\ last_branch = <<>>
    /\ pkg_idx = 0
    /\ tag_idx = 0
    /\ pc = "off"
    /\ calls = 0
    /\ returned = <<>>
    /\ given_pulls = <<>>
    /\ last_step = <<>>
    /\ matched = <<>>
    /\ pr_title = <<>>
    /\ parsed = <<>>
    /\ eups_urls = <<>>
    /\ url_list = <<>>
    /\ downloaded = {}
    /\ release_list = {}
    /\ product_list = {}
    /\ epc = "off"
    /\ fetch_products = {}
    /\ gh_repos = {}
    /\ futures = <<>>
    /\ finished = <<>>
    /\ snapshot = {}
    /\ collected = <<>>
    /\ fetched = <<>>
    /\ fpc = "off"
    /\ product_names = <<>>
    /\ cols = <<>>
    /\ row_i = 0
    /\ ppc = "off"

NextRst ==
    \/ WriteTicket /\ UNCHANGED <<tagVars, diffVars, logVars, ticketVars, eupsVars, fetchVars, productVars>>
    \/ EndTickets /\ UNCHANGED <<tagVars, diffVars, logVars, ticketVars, eupsVars, fetchVars, productVars>>
    \/ WriteRows /\ UNCHANGED <<tagVars, diffVars, logVars, ticketVars, eupsVars, fetchVars, productVars>>

SpecRst == InitRst /\ [][NextRst]_vars

-----------------------------------------------------------------------------
(* The ticket-number specification: _ticket_number on one title *)

InitTicket ==
    /\ pr_title \in Titles
    /\ parsed = <<>>
    /\ names = <<>>
    /\ tagobjs = <<>>
    /\ matched = <<>>
    /\ releases = <<>>
    /\ diff_idx = 0
    /\ last_release = <<>>
    /\ diff_result = {}
    /\ release = WEEKLY
    /\ first_cut = {}
    /\ github_cache = <<>>
    /\ package_diff = {}
    /\ repos = <<>>
    /\ result = <<>>
    /\ last_tag_date = <<>>
    /\ last_tag = <<>>
    /\ last_branch = <<>>
    /\ pkg_idx = 0
    /\ tag_idx = 0
    /\ pc = "off"
    /\ calls = 0
    /\ returned = <<>>
    /\ given_pulls = <<>>
    /\ last_step = <<>>
    /\ jira = <<>>
    /\ tickets = <<>>
    /\ ticket_idx = 0
    /\ ticket_dict = <<>>
    /\ row = <<>>
    /\ wpc = "off"
    /\ eups_urls = <<>>
    /\ url_list = <<>>
    /\ downloaded = {}
    /\ release_list = {}
    /\ product_list = {}
    /\ epc = "off"
    /\ fetch_products = {}
    /\ gh_repos = {}
    /\ futures = <<>>
    /\ finished = <<>>
    /\ snapshot = {}
    /\ collected = <<>>
    /\ fetched = <<>>
    /\ fpc = "off"
    /\ product_names = <<>>
    /\ cols = <<>>
    /\ row_i = 0
    /\ ppc = "off"

\* the call _ticket_number(title)
ParseTicket ==
    /\ parsed = <<>>
    /\ parsed' = <<ticket_number(pr_title)>>
    /\ UNCHANGED pr_title

NextTicket ==
    ParseTicket /\ UNCHANGED <<tagVars, diffVars, logVars, rstVars, eupsVars, fetchVars, productVars>>

SpecTicket == InitTicket /\ [][NextTicket]_vars

-----------------------------------------------------------------------------
(* The releases specification: EupsData.get_releases *)

InitEups ==
    /\ release \in {WEEKLY, REGULAR}
    /\ first_cut = {}
    /\ eups_urls \in EupsInputs
    /\ url_list = <<>>
    /\ downloaded = {}
    /\ release_list = {}
    /\ product_list = {}
    /\ epc = "filter"
    /\ names = <<>>
    /\ tagobjs = <<>>
    /\ matched = <<>>
    /\ releases = <<>>
    /\ diff_idx = 0
    /\ last_release = <<>>
    /\ diff_result = {}
    /\ github_cache = <<>>
    /\ package_diff = {}
    /\ repos = <<>>
    /\ result = <<>>
    /\ last_tag_date = <<>>
    /\ last_tag = <<>>
    /\ last_branch = <<>>
    /\ pkg_idx = 0
    /\ tag_idx = 0
    /\ pc = "off"
    /\ calls = 0
    /\ returned = <<>>
    /\ given_pulls = <<>>
    /\ last_step = <<>>
    /\ jira = <<>>
    /\ tickets = <<>>
    /\ ticket_idx = 0
    /\ ticket_dict = <<>>
    /\ row = <<>>
    /\ wpc = "off"
    /\ pr_title = <<>>
    /\ parsed = <<>>
    /\ fetch_products = {}
    /\ gh_repos = {}
    /\ futures = <<>>
    /\ finished = <<>>
    /\ snapshot = {}
    /\ collected = <<>>
    /\ fetched = <<>>
    /\ fpc = "off"
    /\ product_names = <<>>
    /\ cols = <<>>
    /\ row_i = 0
    /\ ppc = "off"

EupsOnly ==
    UNCHANGED <<tagVars, diffVars, rstVars, ticketVars, fetchVars, productVars, github_cache,
                release, first_cut, package_diff, repos, result, last_tag_date, last_tag,
                last_branch, pkg_idx, tag_idx, pc, calls, returned, given_pulls,
                last_step>>

NextEups ==
    \/ FilterUrls /\ EupsOnly
    \/ Download /\ EupsOnly
    \/ FinishReleases /\ EupsOnly

SpecEups == InitEups /\ [][NextEups]_vars

-----------------------------------------------------------------------------
(* The fetch specification: ChangeLog._get_package_repos *)

InitFetch ==
    /\ fetch_products \in ProductInputs
    /\ gh_repos \in GitHubInputs
    /\ release = WEEKLY
    /\ first_cut = {}
    /\ eups_urls = <<>>
    /\ url_list = <<>>
    /\ downloaded = {}
    /\ release_list = {}
    /\ product_list = {}
    /\ epc = "off"
    /\ names = <<>>
    /\ tagobjs = <<>>
    /\ matched = <<>>
    /\ releases = <<>>
    /\ diff_idx = 0
    /\ last_release = <<>>
    /\ diff_result = {}
    /\ github_cache = <<>>
    /\ package_diff = {}
    /\ repos = <<>>
    /\ result = <<>>
    /\ last_tag_date = <<>>
    /\ last_tag = <<>>
    /\ last_branch = <<>>
    /\ pkg_idx = 0
    /\ tag_idx = 0
    /\ pc = "off"
    /\ calls = 0
    /\ returned = <<>>
    /\ given_pulls = <<>>
    /\ last_step = <<>>
    /\ jira = <<>>
    /\ tickets = <<>>
    /\ ticket_idx = 0
    /\ ticket_dict = <<>>
    /\ row = <<>>
    /\ wpc = "off"
    /\ pr_title = <<>>
    /\ parsed = <<>>
    /\ futures = <<>>
    /\ finished = <<>>
    /\ snapshot = {}
    /\ collected = <<>>
    /\ fetched = <<>>
    /\ fpc = "start"
    /\ product_names = <<>>
    /\ cols = <<>>
    /\ row_i = 0
    /\ ppc = "off"

NextFetch ==
    \/ Submit /\ FetchOnly
    \/ Complete /\ FetchOnly
    \/ AsCompleted /\ FetchOnly
    \/ Collect /\ FetchOnly
    \/ ReturnFetched /\ FetchOnly

SpecFetch == InitFetch /\ [][NextFetch]_vars

-----------------------------------------------------------------------------
(* The products specification: Writer.write_products *)

InitProducts ==
    /\ product_names \in ProductLists
    /\ fetch_products = {}
    /\ gh_repos = {}
    /\ release = WEEKLY
    /\ first_cut = {}
    /\ eups_urls = <<>>
    /\ url_list = <<>>
    /\ downloaded = {}
    /\ release_list = {}
    /\ product_list = {}
    /\ epc = "off"
    /\ names = <<>>
    /\ tagobjs = <<>>
    /\ matched = <<>>
    /\ releases = <<>>
    /\ diff_idx = 0
    /\ last_release = <<>>
    /\ diff_result = {}
    /\ github_cache = <<>>
    /\ package_diff = {}
    /\ repos = <<>>
    /\ result = <<>>
    /\ last_tag_date = <<>>
    /\ last_tag = <<>>
    /\ last_branch = <<>>
    /\ pkg_idx = 0
    /\ tag_idx = 0
    /\ pc = "off"
    /\ calls = 0
    /\ returned = <<>>
    /\ given_pulls = <<>>
    /\ last_step = <<>>
    /\ jira = <<>>
    /\ tickets = <<>>
    /\ ticket_idx = 0
    /\ ticket_dict = <<>>
    /\ row = <<>>
    /\ wpc = "off"
    /\ pr_title = <<>>
    /\ parsed = <<>>
    /\ futures = <<>>
    /\ finished = <<>>
    /\ snapshot = {}
    /\ collected = <<>>
    /\ fetched = <<>>
    /\ fpc = "off"
    /\ cols = <<>>
    /\ row_i = 0
    /\ ppc = "start"

NextProducts ==
    \/ StartProducts /\ UNCHANGED <<tagVars, diffVars, logVars, rstVars, ticketVars, eupsVars, fetchVars>>
    \/ WriteProductRow /\ UNCHANGED <<tagVars, diffVars, logVars, rstVars, ticketVars, eupsVars, fetchVars>>
    \/ WriteProductsTable /\ UNCHANGED <<tagVars, diffVars, logVars, rstVars, ticketVars, eupsVars, fetchVars>>

SpecProducts == InitProducts /\ [][NextProducts]_vars

-----------------------------------------------------------------------------
(* Claims about tag.py, checked under SpecTag *)

Constructed == tagobjs # <<>>

\* a valid tag of the numbered grammar
IsNumbered(t) == t.valid /\ ~t.is_weekly /\ ~t.is_main

Parts(t) == RegularParts(t.name)

PartsTuple(t) == <<Parts(t).major, Parts(t).minor, Parts(t).patch, Parts(t).rc>>

LexLess(x, y) ==
    \E i \in 1..4 : x[i] < y[i] /\ \A j \in 1..(i - 1) : x[j] = y[j]

\* C7: two valid numbered tags have equal sort keys only if they have the
\* same (major, minor, patch, rc), and the sort-key order is the
\* lexicographic order of (major, minor, patch, rc).
C7_NumberedOrderIsLexicographic ==
    (Constructed /\ IsNumbered(tagobjs[1]) /\ IsNumbered(tagobjs[2])) =>
        /\ TagEq(tagobjs[1], tagobjs[2])
              => PartsTuple(tagobjs[1]) = PartsTuple(tagobjs[2])
        /\ TagLt(tagobjs[1], tagobjs[2])
              <=> LexLess(PartsTuple(tagobjs[1]), PartsTuple(tagobjs[2]))

\* C8: the sort key of the trunk tag is strictly greater than the sort key
\* of every valid numbered tag and of every valid weekly tag.
C8_TrunkKeyAboveAll ==
    Constructed =>
        \A i \in 1..2 :
            (tagobjs[i].valid /\ ~tagobjs[i].is_main)
                => TagLt(tagobjs[i], Tag(MainStr))

\* C9: a valid numbered tag without an rc suffix is strictly greater than
\* every valid numbered tag with the same major, minor and patch and a
\* suffix rc<n>.
C9_ReleaseAboveItsCandidates ==
    (/\ Constructed
     /\ IsNumbered(tagobjs[1]) /\ IsNumbered(tagobjs[2])
     /\ ~Parts(tagobjs[1]).has_rc /\ Parts(tagobjs[2]).has_rc
     /\ Parts(tagobjs[1]).major = Parts(tagobjs[2]).major
     /\ Parts(tagobjs[1]).minor = Parts(tagobjs[2]).minor
     /\ Parts(tagobjs[1]).patch = Parts(tagobjs[2]).patch)
        => TagGt(tagobjs[1], tagobjs[2])

\* the spellings of the releases 9.1.0, 9.1.2-rc3, 9.1.2 and 9.1.3
Release_9_1_0 == {<<"v", "9", ".", "1">>, <<"9", "_", "1", "_", "0">>}
Release_9_1_2_rc3 == {<<"v", "9", ".", "1", ".", "2", ".", "r", "c", "3">>}
Release_9_1_2 == {<<"9", ".", "1", ".", "2">>, <<"v", "9", ".", "1", ".", "2">>}
Release_9_1_3 == {<<"v", "9", ".", "1", ".", "3">>}

\* the two tags are valid numbered tags, the first of a release at an
\* earlier place of the order than the second, and the first is not below
OutOfOrder(order) ==
    \E j, k \in 1..Len(order) :
        /\ j < k
        /\ names[1] \in order[j]
        /\ names[2] \in order[k]
        /\ ~(/\ IsNumbered(tagobjs[1]) /\ IsNumbered(tagobjs[2])
             /\ TagLt(tagobjs[1], tagobjs[2]))

\* C17 as stated: the sort keys increase strictly in the order
\* 9.1.0 < 9.1.2 < 9.1.2-rc3 < 9.1.3.
C17_ClaimedOrder ==
    Constructed =>
        ~OutOfOrder(<<Release_9_1_0, Release_9_1_2, Release_9_1_2_rc3, Release_9_1_3>>)

\* C17 (amended): the tags `v9.1`, `9_1_0`, `v9.1.2.rc3`, `9.1.2` and `v9.1.3`
\* are valid numbered tags and their sort keys increase strictly in the order
\* 9.1.0 < 9.1.2-rc3 < 9.1.2 < 9.1.3, the two spellings of 9.1.0 having the
\* same key.
C17_CandidateBelowRelease ==
    Constructed =>
        /\ ~OutOfOrder(<<Release_9_1_0, Release_9_1_2_rc3, Release_9_1_2, Release_9_1_3>>)
        /\ (names[1] \in Release_9_1_0 /\ names[2] \in Release_9_1_0)
              => TagEq(tagobjs[1], tagobjs[2])

\* the candidate 9.1.2-rc3 and the release 9.1.2 were constructed
C17_Witness ==
    /\ Constructed
    /\ names[1] \in Release_9_1_2_rc3
    /\ names[2] = <<"9", ".", "1", ".", "2">>
    /\ TagLt(tagobjs[1], tagobjs[2])

\* C20: two valid tags that compare equal have the same canonical release
\* name.
C20_EqualTagsSameName ==
    (/\ Constructed
     /\ tagobjs[1].valid /\ tagobjs[2].valid
     /\ TagEq(tagobjs[1], tagobjs[2]))
        => rel_name(tagobjs[1]) = rel_name(tagobjs[2])

\* the kind of a valid tag
KindOf(t) ==
    IF t.is_main THEN "TRUNK" ELSE IF t.is_weekly THEN "SNAPSHOT" ELSE "NUMBERED"

\* C14: on a valid tag matches_release is true for WEEKLY exactly when the
\* tag is a SNAPSHOT or the TRUNK tag, and true for REGULAR exactly when it
\* is a NUMBERED or the TRUNK tag; only the TRUNK tag matches both.
C14_MatchesCadence ==
    matched # <<>> =>
        \A i \in 1..2 :
            tagobjs[i].valid =>
                /\ matched[i].weekly <=> KindOf(tagobjs[i]) \in {"SNAPSHOT", "TRUNK"}
                /\ matched[i].regular <=> KindOf(tagobjs[i]) \in {"NUMBERED", "TRUNK"}
                /\ (matched[i].weekly /\ matched[i].regular)
                      <=> KindOf(tagobjs[i]) = "TRUNK"

\* the C14 case: matches_release has been applied to the trunk tag and to a
\* valid weekly tag
C14_Witness ==
    /\ matched # <<>>
    /\ tagobjs[1].valid /\ KindOf(tagobjs[1]) = "TRUNK"
    /\ tagobjs[2].valid /\ KindOf(tagobjs[2]) = "SNAPSHOT"
    /\ matched[1].weekly /\ matched[1].regular
    /\ matched[2].weekly /\ ~matched[2].regular

-----------------------------------------------------------------------------
(* Claims about get_package_diff, checked under SpecDiff *)

Pk(i) == PackageSet(releases[i].data)

EntriesOf(name) == {e \in diff_result : e.tag = name}

\* the example of the specification: R1 = {a, b}, R2 = {a, c}, R3 = {a, c, d}
ExampleReleases ==
    MakeReleases(<<{"a", "b"}, {"a", "c"}, {"a", "c", "d"}>>)

\* C10: every release but the first gets added = current - preceding and
\* removed = preceding - current, two disjoint sets; the first release has
\* no entry; the example gives R2: +{c} -{b}, R3: +{d} -{}, R1 absent.
C10_PackageDiff ==
    /\ \A i \in 2..diff_idx :
          /\ EntriesOf(releases[i].name) =
                {[tag |-> releases[i].name,
                  added |-> Pk(i) \ Pk(i - 1),
                  removed |-> Pk(i - 1) \ Pk(i)]}
          /\ \A e \in EntriesOf(releases[i].name) : e.added \cap e.removed = {}
    /\ \A e \in diff_result :
          \E i \in 2..diff_idx : e.tag = releases[i].name
    /\ (releases = ExampleReleases /\ diff_idx = 3) =>
          diff_result =
             {[tag |-> WeekName(2), added |-> {"c"}, removed |-> {"b"}],
              [tag |-> WeekName(3), added |-> {"d"}, removed |-> {}]}

\* the example has been processed to its end, with a package added (c),
\* removed (b) and kept (a)
C10_Witness ==
    /\ releases = ExampleReleases
    /\ diff_idx = Len(releases)
    /\ Cardinality(diff_result) = 2

-----------------------------------------------------------------------------
(* Claims about get_merged_tickets, checked under Spec (C5: SpecTwice) *)

Stepped == last_step # <<>>

Step == last_step[1]

\* the package is in the added set of the package-diff entry of the tag
Guarded(pkg, name) ==
    \E e \in package_diff : TagEq(Tag(e.tag), Tag(name)) /\ pkg \in e.added

TicketsIn(res, name) == IF name \in DOMAIN res THEN res[name].tickets ELSE <<>>

\* the merge dates of the changes of pkg in the bucket name of res
DatesIn(res, name, pkg) ==
    {TicketsIn(res, name)[i].date :
        i \in {j \in 1..Len(TicketsIn(res, name)) :
                  TicketsIn(res, name)[j].product = pkg}}

InSomeBucket(res, pkg, m) == \E name \in DOMAIN res : m \in DatesIn(res, name, pkg)

\* C1: while the tags of a package are walked, a not yet consumed merge
\* event of the current branch is attributed to the tag being processed
\* exactly when its merge time is at or before the time of the commit the
\* tag points to (last_commit); a later event is never attributed to it.
C1_CutAtCommitTimestamp ==
    (Stepped /\ ~Guarded(Step.pkg, Step.tag.name)) =>
        \A m \in Step.before :
            (m \in Step.appended) <=> (m <= Step.tag.last_commit)

\* C2: no trunk merge event is lost: when get_merged_tickets returns, every
\* trunk merge event of every package that the added-package guard does not
\* suppress is in the bucket of a tag or in the trunk-tail bucket.
C2_NoTrunkEventLost ==
    (pc = "done" /\ calls = 1) =>
        \A pkg \in DOMAIN given_pulls :
            (\A e \in package_diff : pkg \notin e.added) =>
                \A m \in TimesOn(given_pulls, pkg, MainStr) :
                    InSomeBucket(result, pkg, m)

\* C3: for a package P in the added set of the package-diff entry of tag T,
\* no change of P is appended to the bucket of T, neither by the step that
\* processes T (which still consumes the merge events up to the cut of T)
\* nor by any other step.
C3_AddedPackageNotAttributed ==
    /\ (Stepped /\ Guarded(Step.pkg, Step.tag.name)) => Step.appended = {}
    /\ \A e \in package_diff : \A pkg \in e.added :
          DatesIn(result, rel_name(Tag(e.tag)), pkg) = {}

\* the C3 case: a tag of an added package consumed merge events at or
\* before its cut and appended none of them
C3_Witness ==
    /\ Stepped
    /\ Guarded(Step.pkg, Step.tag.name)
    /\ Step.deleted # {}
    /\ \E m \in Step.deleted : m <= Step.tag.last_commit
    /\ Step.appended = {}

TicketNumbers(res, name) ==
    [i \in 1..Len(TicketsIn(res, name)) |-> TicketsIn(res, name)[i].ticket]

V9_0 == <<"v", "9", "_", "0">>
V9_1 == <<"v", "9", "_", "1">>

EndToEndRun == given_pulls = EndToEndInput.repos.pulls

\* C4: after the tags of a package whose most recently processed
\* tag is a NUMBERED tag of a NUMBERED-cadence run, the remaining trunk
\* merge events later than the latest commit time are in the trunk-tail
\* bucket; the scenario v9.0 @ 100, v9.1 @ 200 with merges DM-1, DM-2, DM-3
\* at 50, 150, 250 gives v9_0 = {DM-1}, v9_1 = {DM-2}, trunk tail = {DM-3}.
C4_TailAfterNumberedTag ==
    /\ (pc = "done" /\ calls = 1 /\ release = REGULAR /\ Len(Order) = 1
          /\ IsNumbered(Tag(last_tag))) =>
            \A m \in TimesOn(repos.pulls, Order[1], MainStr) :
                m > last_tag_date[1] => m \in DatesIn(result, TrunkTail, Order[1])
    /\ (pc = "done" /\ EndToEndRun) =>
            /\ TicketNumbers(result, V9_0) = <<<<1>>>>
            /\ TicketNumbers(result, V9_1) = <<<<2>>>>
            /\ TicketNumbers(result, TrunkTail) = <<<<3>>>>

\* the package and the tag of the next iteration of `for tag in tags`
CurPkg == Order[pkg_idx]

CurTag == TagsOf(CurPkg)[tag_idx]

\* a step of the loop `for tag in tags`: the tag at tag_idx of the package
\* at pkg_idx is processed, or the call ends in an exception there
TagTaken ==
    /\ pc = "loop"
    /\ pkg_idx <= Len(Order)
    /\ tag_idx <= Len(TagsOf(CurPkg))
    /\ tag_idx' = tag_idx + 1 \/ pc' = "error"

\* C18: at the first tag of every package current_branch is the trunk,
\* whatever branch the package before ended on.  A tag consumes merge
\* events of current_branch only: the events of every other branch of the
\* package stay, and the events of current_branch at or before the date of
\* the tag are gone after it.  current_branch changes only at a tag that is
\* the first tag cut on its release branch and whose branch is among the
\* branches known across all packages; it then changes to that branch, after
\* the consumption, for the tags that follow in the package.
C18_BranchSwitch ==
    /\ []((pc = "loop" /\ pkg_idx <= Len(Order) /\ tag_idx = 1)
            => last_branch = MainStr)
    /\ [][TagTaken =>
            /\ \A b \in DOMAIN repos.pulls[CurPkg].items :
                  b # last_branch
                     => repos'.pulls[CurPkg].items[b] = repos.pulls[CurPkg].items[b]
            /\ pc' = "loop" =>
                  TimesOn(repos'.pulls, CurPkg, last_branch)
                     = {m \in TimesOn(repos.pulls, CurPkg, last_branch) :
                           m > CurTag.tag_date}
            /\ last_branch' # last_branch =>
                  /\ CurTag.name \in first_cut
                  /\ last_branch' = tag_branch(Tag(CurTag.name))
                  /\ last_branch' \in KnownBranches(repos)
            /\ (/\ pc' = "loop"
                /\ CurTag.name \in first_cut
                /\ tag_branch(Tag(CurTag.name)) \in KnownBranches(repos))
                  => last_branch' = tag_branch(Tag(CurTag.name))]_vars

\* the C18 case: the first package switched to the release branch and
\* consumed from it; the second package, whose own list of branches does not
\* hold the release branch, consumed trunk events with its first tag,
\* switched, and consumed release-branch events with its second tag
C18_Witness ==
    /\ pc = "loop"
    /\ Len(Order) = 2 /\ pkg_idx = 2 /\ tag_idx = 3
    /\ TimesOn(repos.pulls, Order[1], ReleaseBranch)
          # TimesOn(given_pulls, Order[1], ReleaseBranch)
    /\ ReleaseBranch \notin BranchItems(repos.branches[Order[2]])
    /\ TimesOn(repos.pulls, Order[2], MainStr)
          # TimesOn(given_pulls, Order[2], MainStr)
    /\ Stepped
    /\ Step.pkg = Order[2]
    /\ Step.branch = ReleaseBranch
    /\ Step.deleted # {}
    /\ last_branch = ReleaseBranch

\* how many changes of pkg merged at m the buckets names of res hold
RECURSIVE Occurrences(_, _, _, _)
Occurrences(res, names_left, pkg, m) ==
    IF names_left = {} THEN 0
    ELSE Cardinality({i \in 1..Len(res[(CHOOSE n \in names_left : TRUE)].tickets) :
                         /\ res[(CHOOSE n \in names_left : TRUE)].tickets[i].product = pkg
                         /\ res[(CHOOSE n \in names_left : TRUE)].tickets[i].date = m})
            + Occurrences(res, names_left \ {(CHOOSE n \in names_left : TRUE)}, pkg, m)

\* the branches of pkg that have a merge event at m
BranchesAt(pulls, pkg, m) ==
    {b \in DOMAIN pulls[pkg].items : m \in DOMAIN pulls[pkg].items[b]}

\* C19: when get_merged_tickets returns, every merge event (package,
\* branch, merge time) it was given is at most once in all the buckets
\* together, the trunk-tail bucket included: the changes of a package
\* merged at a time are at most as many as the branches of the package
\* with a merge at that time, and there are no changes of anything else.
C19_NoDoubleCounting ==
    (pc = "done" /\ calls = 1) =>
        \A name \in DOMAIN result :
            \A i \in 1..Len(result[name].tickets) :
                /\ result[name].tickets[i].product \in DOMAIN given_pulls
                /\ Occurrences(result, DOMAIN result, result[name].tickets[i].product,
                               result[name].tickets[i].date)
                      <= Cardinality(BranchesAt(given_pulls,
                                                result[name].tickets[i].product,
                                                result[name].tickets[i].date))

\* a run has returned with changes of one package in the bucket of a tag
\* and in the trunk-tail bucket, the package having two tags
C19_Witness ==
    /\ pc = "done"
    /\ calls = 1
    /\ \E pkg \in DOMAIN given_pulls :
          /\ DatesIn(result, TrunkTail, pkg) # {}
          /\ Len(TagsOf(pkg)) = 2
          /\ \E n1 \in DOMAIN result \ {TrunkTail} : DatesIn(result, n1, pkg) # {}

\* the names of the tags of the packages processed before the i-th
TagNamesBefore(i) ==
    UNION {{TagsOf(Order[j])[k].name : k \in 1..Len(TagsOf(Order[j]))} :
              j \in 1..(i - 1)}

\* C21: for a package without a valid tag of the cadence, wherever it stands
\* in the order, get_merged_tickets raises no error, and the last tag that
\* the trunk-tail step of the package reads is neither undefined nor a tag
\* of a package processed before it.
C21_UntaggedPackageTail ==
    pc \in {"loop", "error"} =>
        \A i \in 1..Len(Order) :
            TagsOf(Order[i]) = <<>> =>
                /\ ~(pc = "error" /\ pkg_idx = i)
                /\ (pc = "loop" /\ pkg_idx = i)
                      => (last_tag # <<>> /\ last_tag \notin TagNamesBefore(i))

\* C5: two calls of get_merged_tickets in succession with the same repos
\* and package diff return the same buckets, changes and order, and a call
\* leaves the merge events it was given unchanged.
C5_Idempotent ==
    /\ Len(returned) >= 2 => returned[2] = returned[1]
    /\ pc = "done" => repos.pulls = given_pulls

\* the orders the packages of tag_list can be processed in
Orders ==
    {o \in [1..Len(Order) -> DOMAIN repos.tags] :
        \A i, j \in 1..Len(Order) : o[i] = o[j] => i = j}

SameChanges(res, other) ==
    \A pkg \in DOMAIN repos.tags : \A name \in DOMAIN res \cup DOMAIN other :
        DatesIn(res, name, pkg) = DatesIn(other, name, pkg)

\* C6: the changes of a package that end up in each tag bucket and in the
\* trunk-tail bucket are the same for every order the packages are
\* processed in.
C6_OrderIndependent ==
    (pc = "done" /\ calls = 1) =>
        \A o \in Orders :
            \A alt \in {get_merged_tickets(repos.tags, given_pulls, package_diff,
                                           KnownBranches(repos), o)} :
                ~alt.error /\ SameChanges(result, alt.result)

-----------------------------------------------------------------------------
(* Claims about the ticket table of write_releases, checked under SpecRst *)

\* the second of the hour of a mergedAt string
SecondsOf(date) ==
    IntOf(SubSeq(date, 15, 16)) * 60 + IntOf(SubSeq(date, 18, 19))

\* the positions of the changes of the bucket that have the key
ChangesOf(key) == {i \in 1..Len(tickets) : JiraKey(tickets[i].ticket) = key}

LatestOf(key) ==
    CHOOSE i \in ChangesOf(key) :
        \A j \in ChangesOf(key) : SecondsOf(tickets[j].date) <= SecondsOf(tickets[i].date)

\* the key a row links to: the text of the link between its opening
\* backquote and its first blank
RowKey(i) ==
    SubSeq(row[i].link, 2,
           (CHOOSE p \in 1..Len(row[i].link) :
               /\ row[i].link[p] = " "
               /\ \A q \in 1..(p - 1) : row[i].link[q] # " ") - 1)


\* C11: the merge date on the row of a ticket id is the latest merge date
\* among the changes of the bucket that share the ticket id.
C11_LastMergeIsLatest ==
    wpc = "done" =>
        \A i \in 1..Len(row) :
            row[i].date = ShownDate(tickets[LatestOf(RowKey(i))].date)

KnownKeys == {JiraKey(tickets[i].ticket) : i \in 1..Len(tickets)} \cap DOMAIN jira

\* the products of the changes at the positions from i on that have the
\* key, each product once, in the order they are first seen
RECURSIVE FirstSeen(_, _, _)
FirstSeen(key, i, seen) ==
    IF i > Len(tickets) THEN <<>>
    ELSE IF i \in ChangesOf(key) /\ tickets[i].product \notin seen
         THEN <<tickets[i].product>>
                 \o FirstSeen(key, i + 1, seen \cup {tickets[i].product})
    ELSE FirstSeen(key, i + 1, seen)

\* C12: a bucket yields exactly one row per distinct ticket id that has a
\* summary in the issue tracker, no row for a change whose ticket id has
\* none (a null ticket id included), and each row lists the contributing
\* package names in first-seen order.
C12_OneRowPerKnownTicket ==
    wpc = "done" =>
        /\ {RowKey(i) : i \in 1..Len(row)} = KnownKeys
        /\ Len(row) = Cardinality(KnownKeys)
        /\ \A i \in 1..Len(row) : row[i].msg = jira[RowKey(i)]
        /\ \A i \in 1..Len(row) :
              row[i].product = Join(FirstSeen(RowKey(i), 1, {}))

-----------------------------------------------------------------------------
(* Claims about _ticket_number, checked under SpecTicket *)

IsBlankOrHyphen(c) == c \in WhiteSpace \/ c = "-"

RECURSIVE SepRunEnd(_, _)
SepRunEnd(s, i) ==
    IF i <= Len(s) /\ IsBlankOrHyphen(s[i]) THEN SepRunEnd(s, i + 1) ELSE i

\* 'DM', then zero or more blanks or hyphens, then a digit, at position i
ClaimedAt(s, i) ==
    /\ i + 2 <= Len(s)
    /\ s[i] = "D" /\ s[i + 1] = "M"
    /\ SepRunEnd(s, i + 2) <= Len(s)
    /\ IsDigit(s[SepRunEnd(s, i + 2)])

ClaimedFrom(s, hits) ==
    IF hits = {} THEN <<>>
    ELSE <<IntOf(SubSeq(s, SepRunEnd(s, Least(hits) + 2),
                        DigitRunEnd(s, SepRunEnd(s, Least(hits) + 2)) - 1))>>

ClaimedTicket(s) == ClaimedFrom(s, {i \in 1..Len(s) : ClaimedAt(s, i)})

\* C13: _ticket_number returns the digit run of the first place of the
\* upper-cased title where 'DM' is followed by zero or more blanks or
\* hyphens and then digits, and null when there is no such place.
C13_TicketGrammar ==
    parsed # <<>> =>
        /\ ~parsed[1].raises
        /\ parsed[1].ticket = ClaimedTicket(Upper(pr_title))

-----------------------------------------------------------------------------
(* Claims about EupsData.get_releases, checked under SpecEups *)

\* C15: no invalid tag and no tag of the other cadence is a key of the
\* releases returned by get_releases (nor of the tag map of
\* get_package_repos), whatever strings the tags are constructed from.
C15_InvalidExcluded ==
    epc = "done" =>
        \A e \in release_list :
            /\ Tag(e.name).valid
            /\ matches_release(Tag(e.name), release)

-----------------------------------------------------------------------------
(* Claims about ChangeLog._get_package_repos, checked under SpecFetch *)

\* the repositories of repo_list whose fetch succeeds
Succeeded ==
    {r \in RepoList(fetch_products, DOMAIN gh_repos) : ~_fetch(r, gh_repos[r]).exception}

\* C16: whichever fetches fail and in whatever order the fetches complete,
\* _get_package_repos returns, it does so only after every fetch has
\* completed, and its result holds the pulls, tags and branches of exactly
\* the repositories whose fetch succeeded.
C16_FailedFetchOmitted ==
    fpc = "returned" =>
        /\ \A r \in DOMAIN futures : futures[r].done
        /\ DOMAIN futures = RepoList(fetch_products, DOMAIN gh_repos)
        /\ DOMAIN fetched.pulls = Succeeded
        /\ DOMAIN fetched.tags = Succeeded
        /\ DOMAIN fetched.branches = Succeeded
        /\ \A r \in Succeeded :
              /\ fetched.pulls[r] = _fetch(r, gh_repos[r]).data.pulls
              /\ fetched.tags[r] = _fetch(r, gh_repos[r]).data.tags
              /\ fetched.branches[r] = _fetch(r, gh_repos[r]).data.branches

\* two fetches failed, one succeeded, the failed ones completed before
\* as_completed began and were handed over in the other order, and the
\* one that succeeded completed while the loop ran
C16_Witness ==
    /\ fpc = "returned"
    /\ Len(finished) = 3
    /\ futures[finished[1]].exception
    /\ futures[finished[2]].exception
    /\ ~futures[finished[3]].exception
    /\ finished[1] = "c"
    /\ snapshot = {finished[1], finished[2]}
    /\ collected = <<finished[2], finished[1], finished[3]>>
    /\ DOMAIN fetched.branches = {finished[3]}

-----------------------------------------------------------------------------
(* Claims about Writer.write_products, checked under SpecProducts *)

\* the cells of the table in reading order
RECURSIVE CellsOf(_, _)
CellsOf(table, i) ==
    IF i > Len(table) THEN <<>> ELSE table[i] \o CellsOf(table, i + 1)

\* C22: for every number n >= 0 of products and ncols = 5, the table that
\* write_products writes has every product in exactly one cell, in list
\* order, the products of a last, partially filled row included: the
\* non-empty cells in reading order are the links of the products in order.
C22_EveryProductInTable ==
    ppc = "done" =>
        SelectSeq(CellsOf(cols, 1), LAMBDA c : c # <<>>)
            = [k \in 1..Len(product_names) |-> Link(product_names[k])]

=============================================================================
